---- MODULE Spec2Model ----
(***************************************************************************)
(* Verification model of trpc-agent-go-extensions.                         *)
(*                                                                         *)
(*   FlowSpec      one run of a flow built by GraphBuilder, ChainBuilder   *)
(*                 or AgentBuilder on the graph engine: LLM node, tools    *)
(*                 node, confirm node and the conditional routers.         *)
(*   ClassifySpec  pipeline.ClassifyToolError applied to an error value.   *)
(*   HookSpec      the middleware chain: chained pre and post hooks over   *)
(*                 the Compression, PromptInjection, ArtifactRecord and    *)
(*                 caller-supplied middlewares.                            *)
(*   MonitorSpec   token.Monitor called from concurrent goroutines, each   *)
(*                 method under the monitor's mutex.                       *)
(*   CompressSpec  memory.LLMCompressor, alone and as the compressor of    *)
(*                 the Compression middleware with a Monitor as observer.  *)
(*                                                                         *)
(* The specifications share the variables; the components a          *)
(* specification does not exercise stay parked at their idle values.       *)
(***************************************************************************)
EXTENDS Integers, Sequences, FiniteSets, TLC

VARIABLES
    \* ---- flow run (FlowSpec) ----
    builder,      \* "graph" | "chain" | "agent" | "none"
    steps,        \* step id -> Frontmatter fields used by the builders
    cur,          \* node the engine is at
    prev,         \* node the last routing decision was taken from
    phase,        \* "idle" | "ready" | "ran" | "suspended" | "failed" | "done" | "halted"
    errCode,      \* state slot pipeline_error_code ("" when absent)
    toolCalls,    \* the last LLM response requested tool calls
    nodeErr,      \* error returned by the node that failed the run
    lastToolErr,  \* error raised by the last underlying tool call
    payload,      \* suspension payload handed to the engine
    finished,     \* nodes that have completed without error
    artifacts,    \* step ids the artifact tracker holds a record for
    events,       \* history: what has run in the current visit of the step, since its last LLM turn began
    \* ---- classifier (ClassifySpec) ----
    clsErr,       \* the error value given to ClassifyToolError
    clsCode,      \* its result
    clsDone,      \* ClassifyToolError has returned
    \* ---- middleware chain (HookSpec) ----
    items,        \* MiddlewareChain.items
    preIn,        \* the messages slot of the run's state when the pre hook is called
    stateMsgs,    \* the messages slot of the state the hooks were given, after the call
    postIn,       \* result and node error the chained post hook is given
    preOut,       \* what the last call of the chained pre hook did and returned
    postOut,      \* what the last call of the chained post hook did and returned
    hphase,       \* "idle" | "built" | "pre" | "post"
    \* ---- token monitor (MonitorSpec, CompressSpec) ----
    mon,          \* the fields of the Monitor
    mu,           \* Monitor.mu: the goroutine holding the write lock, the read holders
    thr,          \* per goroutine: the method it is in, its arguments and locals
    recLog,       \* history: the records given to RecordUsage since construction or Reset
    fedConsistent,\* history: every record so far had TotalTokens = Prompt + Completion
    nCompress,    \* history: number of OnCompression calls
    raised,       \* history: number of times pendingUpdate went from false to true
    drainTrue,    \* history: number of DrainPendingUpdate calls that returned true
    \* ---- compressor (CompressSpec) ----
    compressor,   \* the fields of the LLMCompressor
    llm,          \* what the model does when asked for a summary
    cmpIn,        \* the message list and the token count given
    cmpOut,       \* what the last call of CompressIfNeeded returned
    hookOut,      \* what the last call of the Compression pre hook returned
    cphase,       \* "idle" | "built" | "called" | "hooked"
    \* ---- artifact tracker (TrackerSpec) ----
    fsys,         \* the file system: path -> what is there
    heap,         \* the ArtifactInfo structs and maps allocated, by address
    held,         \* the value a caller got from GetArtifact or GetAll
    log,          \* the RecordCompleted calls made so far, with what they returned
    lastOp,       \* the operation performed last
    \* ---- flow construction (BuildSpec) ----
    bldIn,        \* the step list, the options and the engine given to Build
    bldOut,       \* the builder called last and what its Build returned
    \* ---- reference validation (ValidateSpec) ----
    valIn,        \* the step list given to ValidateReferences
    valOut,       \* whether it was called, and the records it returned
    \* ---- composite loader (LoaderSpec) ----
    ldrIn,        \* what each inner loader's Load returns
    ldrOut,       \* whether Load was called, and what it returned
    \* ---- template renderer (RenderSpec) ----
    rndIn,        \* the content and the two vars maps
    rndOut,       \* the strings the calls of RenderTemplate returned
    \* ---- input summariser (SummarizerSpec) ----
    summarizer,   \* the fields of the LLMSummarizer: llmModel, cache
    sumFS,        \* the file system the summarisers read
    sumCalls,     \* per goroutine: where its Summarize call is and its locals
    sumLog,       \* history: the Summarize calls that have returned, in order of return
    \* ---- workflow snapshot (ProgressSpec) ----
    prgIn,        \* the snapshot's steps, the tracker's records, the current step id
    prgOut        \* whether buildProgress was called, and the lines it returned

flowVars == <<builder, steps, cur, prev, phase, errCode, toolCalls, nodeErr,
              lastToolErr, payload, finished, artifacts, events>>
clsVars == <<clsErr, clsCode, clsDone>>
hookVars == <<items, preIn, stateMsgs, postIn, preOut, postOut, hphase>>
monVars == <<mon, mu, thr, recLog, fedConsistent, nCompress, raised, drainTrue>>
cmpVars == <<compressor, llm, cmpIn, cmpOut, hookOut, cphase>>
trkVars == <<fsys, heap, held, log, lastOp>>
bldVars == <<bldIn, bldOut>>
valVars == <<valIn, valOut>>
ldrVars == <<ldrIn, ldrOut>>
rndVars == <<rndIn, rndOut>>
sumVars == <<summarizer, sumFS, sumCalls, sumLog>>
prgVars == <<prgIn, prgOut>>
lateVars == <<sumVars, prgVars>>
extVars == <<trkVars, bldVars, valVars, ldrVars, rndVars>>
coreVars == <<flowVars, clsVars, hookVars, monVars, cmpVars>>
vars == <<coreVars, extVars, lateVars>>
nonFlowVars == <<clsVars, hookVars, monVars, cmpVars, extVars, lateVars>>
nonClsVars == <<flowVars, hookVars, monVars, cmpVars, extVars, lateVars>>
nonHookVars == <<flowVars, clsVars, monVars, cmpVars, extVars, lateVars>>
nonMonVars == <<flowVars, clsVars, hookVars, cmpVars, extVars, lateVars>>
nonTrkVars == <<coreVars, bldVars, valVars, ldrVars, rndVars, lateVars>>
nonBldVars == <<coreVars, trkVars, valVars, ldrVars, rndVars, lateVars>>
nonValVars == <<coreVars, trkVars, bldVars, ldrVars, rndVars, lateVars>>
nonLdrVars == <<coreVars, trkVars, bldVars, valVars, rndVars, lateVars>>
nonRndVars == <<coreVars, trkVars, bldVars, valVars, ldrVars, lateVars>>
nonSumVars == <<coreVars, extVars, prgVars>>
nonPrgVars == <<coreVars, extVars, sumVars>>

----------------------------------------------------------------------------
(* Bounds *)

\* a message of an error holds at most this many vocabulary fragments
MaxFragments == 2
\* an error is wrapped in at most this many ToolError layers
MaxWrap == 2
\* a middleware chain has at most this many members
MaxChain == 2
\* the messages slot holds at most this many messages
MaxMsgs == 2
\* RecordUsage is called at most this many times between two Resets
MaxRecords == 3
\* OnCompression is called at most this many times
MaxCompressions == 2
\* the compressor is given at most this many messages
MaxHistory == 5

----------------------------------------------------------------------------
(* pipeline/errors.go : error codes and error values *)

ErrCodeCompileError == "compile_error"
ErrCodeLintError == "lint_error"
ErrCodeAssertionFail == "assertion_fail"
ErrCodeTimeout == "timeout"
ErrCodeToolUnavailable == "tool_unavailable"
ErrCodeInputMissing == "input_missing"
ErrCodeRuntimeError == "runtime_error"
ErrCodeUnknown == "unknown"

ErrorCodes ==
    {ErrCodeCompileError, ErrCodeLintError, ErrCodeAssertionFail, ErrCodeTimeout,
     ErrCodeToolUnavailable, ErrCodeInputMissing, ErrCodeRuntimeError, ErrCodeUnknown}

\* Fragments an error message is made of, in the case the tool wrote them.
Fragments ==
    {"Assertion failed", "LINT", "compile", "Syntax", "timeout", "Timed Out",
     "tool", "not found", "Unavailable", "connection refused", "missing", "boom"}

\* strings.ToLower on one fragment.
ToLower(f) ==
    CASE f = "Assertion failed" -> "assertion failed"
      [] f = "LINT" -> "lint"
      [] f = "Syntax" -> "syntax"
      [] f = "Timed Out" -> "timed out"
      [] f = "Unavailable" -> "unavailable"
      [] OTHER -> f

\* The classifier's keywords that occur as a substring of a text.
KeywordsIn(text) ==
    CASE text = "assertion failed" -> {"assert"}
      [] text = "assertion_fail" -> {"assert"}
      [] text = "lint_error" -> {"lint"}
      [] text = "compile_error" -> {"compile"}
      [] text = "tool_unavailable" -> {"tool", "unavailable"}
      [] text = "input_missing" -> {"missing"}
      [] text \in {"lint", "compile", "syntax", "timeout", "timed out", "tool",
                   "not found", "unavailable", "connection refused", "missing"} -> {text}
      [] OTHER -> {}

\* strings.Contains(strings.ToLower(msg), kw) for a message given by its fragments.
Contains(msg, kw) == \E f \in msg : kw \in KeywordsIn(ToLower(f))

\* An error value: the ToolError layers wrapped around it (their codes, the
\* outermost first), and the innermost plain error when there is one: its
\* message and whether it is (or wraps) context.Canceled / DeadlineExceeded.
NilError == [isNil |-> TRUE, tool |-> <<>>, hasLeaf |-> FALSE, ctx |-> "none", msg |-> {}]

PlainError(ctx, msg) ==
    [isNil |-> FALSE, tool |-> <<>>, hasLeaf |-> TRUE, ctx |-> ctx, msg |-> msg]

\* ToolError{Code: code, Err: inner}; inner = NilError is ToolError{Code: code}.
WrapToolError(code, inner) ==
    [isNil |-> FALSE, tool |-> <<code>> \o inner.tool, hasLeaf |-> inner.hasLeaf,
     ctx |-> inner.ctx, msg |-> inner.msg]

\* ToolError.Error(): the wrapped error's message, else the code itself.
ErrorString(e) ==
    IF e.hasLeaf THEN e.msg
    ELSE IF e.tool # <<>> /\ e.tool[Len(e.tool)] # "" THEN {e.tool[Len(e.tool)]}
    ELSE {}

\* errors.As(err, &toolErr): the first ToolError of the chain.
ErrorsAsToolError(e) ==
    IF e.tool # <<>> THEN [ok |-> TRUE, Code |-> e.tool[1]] ELSE [ok |-> FALSE, Code |-> ""]

\* errors.Is(err, context.DeadlineExceeded) || errors.Is(err, context.Canceled)
ErrorsIsContext(e) == e.hasLeaf /\ e.ctx \in {"canceled", "deadline"}

\* ClassifyToolError with the lint rule tried before the assert rule.
ClassifyToolError_LintFirst(e) ==
    IF e.isNil THEN ""
    ELSE IF ErrorsAsToolError(e).ok /\ ErrorsAsToolError(e).Code # "" THEN ErrorsAsToolError(e).Code
    ELSE IF ErrorsIsContext(e) THEN ErrCodeTimeout
    ELSE LET msg == ErrorString(e) IN
         IF Contains(msg, "lint") THEN ErrCodeLintError
         ELSE IF Contains(msg, "assert") THEN ErrCodeAssertionFail
         ELSE IF Contains(msg, "compile") \/ Contains(msg, "syntax") THEN ErrCodeCompileError
         ELSE IF Contains(msg, "timeout") \/ Contains(msg, "timed out") THEN ErrCodeTimeout
         ELSE IF Contains(msg, "tool") /\ Contains(msg, "not found") THEN ErrCodeToolUnavailable
         ELSE IF Contains(msg, "unavailable") \/ Contains(msg, "connection refused")
              THEN ErrCodeToolUnavailable
         ELSE IF Contains(msg, "not found") \/ Contains(msg, "missing") THEN ErrCodeInputMissing
         ELSE ErrCodeRuntimeError

ClassifyToolError(e) ==
    IF e.isNil THEN ""
    ELSE IF ErrorsAsToolError(e).ok /\ ErrorsAsToolError(e).Code # "" THEN ErrorsAsToolError(e).Code
    ELSE IF ErrorsIsContext(e) THEN ErrCodeTimeout
    ELSE LET msg == ErrorString(e) IN
         IF Contains(msg, "assert") THEN ErrCodeAssertionFail
         ELSE IF Contains(msg, "lint") THEN ErrCodeLintError
         ELSE IF Contains(msg, "compile") \/ Contains(msg, "syntax") THEN ErrCodeCompileError
         ELSE IF Contains(msg, "timeout") \/ Contains(msg, "timed out") THEN ErrCodeTimeout
         ELSE IF Contains(msg, "tool") /\ Contains(msg, "not found") THEN ErrCodeToolUnavailable
         ELSE IF Contains(msg, "unavailable") \/ Contains(msg, "connection refused")
              THEN ErrCodeToolUnavailable
         ELSE IF Contains(msg, "not found") \/ Contains(msg, "missing") THEN ErrCodeInputMissing
         ELSE ErrCodeRuntimeError

----------------------------------------------------------------------------
(* Error values the model draws from *)

\* codes a caller attaches with ToolError: none, standard ones, one of its own
ExplicitCodes == {"", ErrCodeLintError, ErrCodeUnknown, "custom_code"}

ErrorMessages == {m \in SUBSET Fragments : Cardinality(m) <= MaxFragments}

RECURSIVE CodeSeqs(_)
CodeSeqs(n) ==
    IF n = 0 THEN {<<>>}
    ELSE CodeSeqs(n - 1) \cup
         {<<c>> \o s : c \in ExplicitCodes, s \in {t \in CodeSeqs(n - 1) : Len(t) = n - 1}}

RECURSIVE WrapAll(_, _)
WrapAll(codes, inner) ==
    IF codes = <<>> THEN inner
    ELSE WrapToolError(codes[1], WrapAll(Tail(codes), inner))

ClassifyInputs ==
    {NilError}
    \cup {WrapAll(cs, PlainError(c, m)) :
            cs \in CodeSeqs(MaxWrap), c \in {"none", "canceled", "deadline"}, m \in ErrorMessages}
    \cup {WrapAll(cs, NilError) : cs \in CodeSeqs(MaxWrap) \ {<<>>}}

\* errors the tools of a flow raise
FlowToolErrors ==
    {PlainError("none", {"Syntax"}),
     PlainError("none", {"Timed Out"}),
     PlainError("none", {"boom"}),
     PlainError("canceled", {"boom"}),
     WrapToolError(ErrCodeLintError, PlainError("none", {"boom"})),
     WrapToolError("custom_code", PlainError("none", {"boom"}))}

----------------------------------------------------------------------------
(* flow helpers : nodes, routers, node functions *)

StateKeyPipelineErrorCode == "pipeline_error_code"

StepIds == {"s1", "s2"}
\* the step list given to Build, in order
StepOrder == <<"s1", "s2">>

End == [step |-> "", kind |-> "end"]
NoNode == [step |-> "", kind |-> "none"]
LLMNodeID(stepID) == [step |-> stepID, kind |-> "llm"]
confirmNodeID(stepID) == [step |-> stepID, kind |-> "confirm"]
toolsNodeID(stepID) == [step |-> stepID, kind |-> "tools"]

nextStepID(next) == IF next = "" THEN End ELSE LLMNodeID(next)

AdvanceAuto == "auto"
AdvanceConfirm == "confirm"
AdvanceBlock == "block"

NoFallback == [c \in {} |-> ""]

\* The label the router built by makeFallbackRouter(fallback) returns.
makeFallbackRouter(fallback, code) ==
    IF code # "" THEN
        IF code \in DOMAIN fallback THEN code
        ELSE IF "default" \in DOMAIN fallback THEN "default"
        ELSE "success"
    ELSE "success"

\* The path map addEdges registers next to the router: success, then one
\* entry per fallback code with a non-empty target (a later entry overwrites).
PathMap(fallback, successTarget) ==
    [l \in {"success"} \cup {c \in DOMAIN fallback : fallback[c] # ""} |->
        IF l \in DOMAIN fallback /\ fallback[l] # "" THEN LLMNodeID(fallback[l])
        ELSE successTarget]

\* The engine's conditional edge: the router's label looked up in the path
\* map; a label without an entry selects no node.
ConditionalTarget(fallback, code, successTarget) ==
    LET label == makeFallbackRouter(fallback, code)
        pm == PathMap(fallback, successTarget)
    IN IF label \in DOMAIN pm THEN pm[label] ELSE NoNode

\* Result of a node function or hook: the error it returns, and the patch
\* of pipeline_error_code it returns (patch = FALSE: the key is not in the
\* returned state, or no state is returned).
NodeResult(err, patch, code) == [err |-> err, patch |-> patch, code |-> code]

\* wrapToolsNode(base) run on a base call that returned (state?, baseErr).
wrapToolsNode(baseErr, baseIsState) ==
    IF ~baseErr.isNil THEN NodeResult(NilError, TRUE, ClassifyToolError(baseErr))
    ELSE IF baseIsState THEN NodeResult(NilError, TRUE, "")
    ELSE NodeResult(NilError, FALSE, "")

\* The tools node each builder registers: GraphBuilder and ChainBuilder wrap
\* the engine's tools node, AgentBuilder registers it as it is.
ToolsNodeFunc(b, baseErr, baseIsState) ==
    IF b \in {"graph", "chain"} THEN wrapToolsNode(baseErr, baseIsState)
    ELSE NodeResult(baseErr, FALSE, "")

\* clearPipelineErrorCode(result, nodeErr), the post hook of an LLM node.
clearPipelineErrorCode(resultIsState, err) ==
    IF ~err.isNil THEN NodeResult(err, FALSE, "")
    ELSE IF resultIsState THEN NodeResult(NilError, TRUE, "")
    ELSE NodeResult(NilError, FALSE, "")

\* The post hook each builder installs on its LLM nodes: only
\* GraphBuilder.buildLLMNodeOptions installs clearPipelineErrorCode.
LLMPostHook(b, resultIsState, err) ==
    IF b = "graph" THEN clearPipelineErrorCode(resultIsState, err)
    ELSE NodeResult(err, FALSE, "")

NoPayload == [set |-> FALSE, message |-> <<"", "">>, stage |-> "", advance |-> ""]

\* The prompt makeConfirmNode formats for a mode: its text and the step id.
ConfirmPrompt(stepID, mode) ==
    IF mode = AdvanceBlock THEN <<"stage done, waiting for manual continue", stepID>>
    ELSE IF mode = AdvanceConfirm THEN <<"confirm entering the next stage?", stepID>>
    ELSE <<"stage done, waiting for user input", stepID>>

\* makeConfirmNode(stepID, mode) run once (not on resume): either a patch
\* clearing the code, or graph.Interrupt with the payload.
makeConfirmNode(stepID, mode) ==
    IF mode = AdvanceAuto
    THEN [interrupt |-> FALSE, patch |-> TRUE, code |-> "", payload |-> NoPayload]
    ELSE [interrupt |-> TRUE, patch |-> FALSE, code |-> "",
          payload |-> [set |-> TRUE, message |-> ConfirmPrompt(stepID, mode),
                       stage |-> stepID, advance |-> mode]]

----------------------------------------------------------------------------
(* flow configurations *)

Builders == {"graph", "chain", "agent"}

\* advance as a step carries it: the three modes, the zero value of a step
\* built in code, and a string the YAML decoder accepts unchecked
AdvanceChoices == {AdvanceAuto, AdvanceConfirm, AdvanceBlock, "", "manual"}

FallbackChoices ==
    {NoFallback,
     ("compile_error" :> "s2"),
     ("default" :> "s2"),
     ("default" :> "s1") @@ ("compile_error" :> "s1") @@ ("timeout" :> "s2"),
     ("timeout" :> "")}

StepConfigs ==
    {[s \in StepIds |-> IF s = "s1" THEN a ELSE b] :
        a \in [tools : BOOLEAN, fallback : FallbackChoices,
               advance : AdvanceChoices, next : {"s2"}],
        b \in [tools : BOOLEAN, fallback : {NoFallback},
               advance : {AdvanceAuto, AdvanceConfirm}, next : {""}]}

LastStep == StepOrder[Len(StepOrder)]

StepIndex(stepID) == CHOOSE i \in 1..Len(StepOrder) : StepOrder[i] = stepID

\* AgentBuilder unions the tool sets of all steps
AgentHasTools(cfg) == \E s \in StepIds : cfg[s].tools

NodeHasTools(b, cfg, node) ==
    IF b = "agent" THEN AgentHasTools(cfg) ELSE cfg[node.step].tools

EntryPoint(b) == IF b = "agent" THEN LLMNodeID("agent") ELSE LLMNodeID(StepOrder[1])

\* the wiring with the tools node placed behind the confirm node
GraphTargets_ToolsAfterConfirm(cfg, node, code, calls) ==
    LET st == cfg[node.step] IN
    CASE node.kind = "confirm" ->
            IF st.tools THEN {toolsNodeID(node.step)} ELSE {nextStepID(st.next)}
      [] node.kind = "tools" ->
            {ConditionalTarget(st.fallback, code, LLMNodeID(node.step))}
      [] node.kind = "llm" -> {confirmNodeID(node.step)}

\* GraphBuilder.addEdges and setEntryAndFinish: the nodes an edge leads to.
GraphTargets(cfg, node, code, calls) ==
    LET st == cfg[node.step] IN
    CASE node.kind = "confirm" ->
            {nextStepID(st.next)} \cup (IF node.step = LastStep THEN {End} ELSE {})
      [] node.kind = "tools" ->
            {ConditionalTarget(st.fallback, code, LLMNodeID(node.step))}
      [] node.kind = "llm" ->
            IF st.tools
            THEN {IF calls THEN toolsNodeID(node.step) ELSE confirmNodeID(node.step)}
            ELSE IF DOMAIN st.fallback # {}
            THEN {ConditionalTarget(st.fallback, code, confirmNodeID(node.step))}
            ELSE {confirmNodeID(node.step)}

\* the chain with the router of a tools node given the step's fallback map
ChainTargets_FollowsFallback(cfg, node, code, calls) ==
    CASE node.kind = "confirm" ->
            IF StepIndex(node.step) < Len(StepOrder)
            THEN {LLMNodeID(StepOrder[StepIndex(node.step) + 1])}
            ELSE {End}
      [] node.kind = "tools" ->
            {ConditionalTarget(cfg[node.step].fallback, code, LLMNodeID(node.step))}
      [] node.kind = "llm" ->
            IF cfg[node.step].tools
            THEN {IF calls THEN toolsNodeID(node.step) ELSE confirmNodeID(node.step)}
            ELSE {confirmNodeID(node.step)}

\* ChainBuilder.Build, phases 2 and 3.
ChainTargets(cfg, node, code, calls) ==
    CASE node.kind = "confirm" ->
            IF StepIndex(node.step) < Len(StepOrder)
            THEN {LLMNodeID(StepOrder[StepIndex(node.step) + 1])}
            ELSE {End}
      [] node.kind = "tools" ->
            {ConditionalTarget(NoFallback, code, LLMNodeID(node.step))}
      [] node.kind = "llm" ->
            IF cfg[node.step].tools
            THEN {IF calls THEN toolsNodeID(node.step) ELSE confirmNodeID(node.step)}
            ELSE {confirmNodeID(node.step)}

\* AgentBuilder.Build: agent <-> agent:tools, else the end sentinel.
AgentTargets(cfg, node, code, calls) ==
    CASE node.kind = "tools" -> {LLMNodeID("agent")}
      [] node.kind = "llm" ->
            IF AgentHasTools(cfg)
            THEN {IF calls THEN toolsNodeID("agent") ELSE End}
            ELSE {End}

Targets(b, cfg, node, code, calls) ==
    CASE b = "graph" -> GraphTargets(cfg, node, code, calls)
      [] b = "chain" -> ChainTargets(cfg, node, code, calls)
      [] b = "agent" -> AgentTargets(cfg, node, code, calls)

\* the error of a failed model call
LLMError == PlainError("none", {"boom"})

----------------------------------------------------------------------------
(* middleware : state values, patches, the concrete hooks *)

Roles == {"system", "user", "assistant"}

\* model.Message; the content stands for the text a role wrote
Message(role, content) == [role |-> role, content |-> content]
NewSystemMessage(content) == Message("system", content)

\* the value under graph.StateKeyMessages: absent (or of another type), a
\* []model.Message, or a []graph.MessageOp
NoMessages == [kind |-> "absent", list |-> <<>>, ops |-> <<>>]
MessageList(l) == [kind |-> "list", list |-> l, ops |-> <<>>]
MessageOps(o) == [kind |-> "ops", list |-> <<>>, ops |-> o]
RemoveAllMessages == [op |-> "remove_all", items |-> <<>>]
AppendMessages(l) == [op |-> "append", items |-> l]

\* a hook's result: nil, or a graph.State with plain keys and maybe messages
NoVals == [k \in {} |-> ""]
NilPatch == [isState |-> FALSE, vals |-> NoVals, hasMsgs |-> FALSE, msgs |-> NoMessages]
StatePatch(vals) == [isState |-> TRUE, vals |-> vals, hasMsgs |-> FALSE, msgs |-> NoMessages]
MessagesPatch(m) == [isState |-> TRUE, vals |-> NoVals, hasMsgs |-> TRUE, msgs |-> m]

\* memory.SummaryPrefix and the part of it IsSummaryMessage looks for
SummaryMarker == "[context-summary"
SummaryPrefix == SummaryMarker \o " - digest of the dialogue so far]"

\* the summary bodies that occur: of an earlier compression, and the two
\* texts the model may answer with
SummaryBodies == {"old digest", "brief", "long digest"}

\* strings.HasPrefix(content, marker), over the contents that occur
IsSummaryMessage(content) == content \in {SummaryPrefix \o b : b \in SummaryBodies}

FormatSummaryMessage(summary) == Message("system", SummaryPrefix \o summary)

\* SimpleCounter.Count: the sum of the per-message estimates
MessageTokens(m) ==
    CASE m.content = "sys" -> 4
      [] m.content = "dyn" -> 6
      [] m.content = SummaryPrefix \o "brief" -> 1
      [] m.content = SummaryPrefix \o "old digest" -> 3
      [] m.content = SummaryPrefix \o "long digest" -> 12
      [] OTHER -> 2

RECURSIVE Count(_)
Count(msgs) == IF msgs = <<>> THEN 0 ELSE MessageTokens(Head(msgs)) + Count(Tail(msgs))

(* memory/compressor.go : the LLM compressor *)

\* the messages of the lists the compressor is given
HistoryMessages ==
    {Message("system", "sys"), Message("system", SummaryPrefix \o "old digest"),
     Message("user", "u"), Message("assistant", "a")}

\* NewLLMCompressor; the threshold is held in per cent
NewLLMCompressor(contextWindow, threshold, keepRecentTurns) ==
    [contextWindow |-> contextWindow,
     threshold |-> IF threshold <= 0 \/ threshold >= 100 THEN 70 ELSE threshold,
     keepRecentTurns |-> IF keepRecentTurns <= 0 THEN 3 ELSE keepRecentTurns]

\* what the model does when asked to summarise: GenerateContent fails, the
\* response carries an error, or the choices hold a text
LLMOutcome(kind, text) == [kind |-> kind, text |-> text]

\* strings.TrimSpace, over the texts that occur
TrimSpace(text) ==
    CASE text = "  " -> ""
      [] text = " long digest " -> "long digest"
      [] text = " " -> ""
      [] text = " s1" -> "s1"
      [] OTHER -> text

\* LLMCompressor.callSummarize
callSummarize(l) ==
    IF l.kind # "text" THEN [summary |-> "", err |-> TRUE]
    ELSE LET summary == TrimSpace(l.text)
         IN IF summary = "" THEN [summary |-> "", err |-> TRUE]
            ELSE [summary |-> summary, err |-> FALSE]

\* the loop of compress that splits the list by role
RECURSIVE SplitByRole(_, _, _)
SplitByRole(msgs, systemMsgs, conversationMsgs) ==
    IF msgs = <<>> THEN [systemMsgs |-> systemMsgs, conversationMsgs |-> conversationMsgs]
    ELSE IF Head(msgs).role = "system"
         THEN SplitByRole(Tail(msgs), Append(systemMsgs, Head(msgs)), conversationMsgs)
         ELSE SplitByRole(Tail(msgs), systemMsgs, Append(conversationMsgs, Head(msgs)))

\* the loop of compress that copies the system messages other than summaries
RECURSIVE PreserveSystem(_, _)
PreserveSystem(systemMsgs, result) ==
    IF systemMsgs = <<>> THEN result
    ELSE IF ~IsSummaryMessage(Head(systemMsgs).content)
         THEN PreserveSystem(Tail(systemMsgs), Append(result, Head(systemMsgs)))
         ELSE PreserveSystem(Tail(systemMsgs), result)

\* compress carrying the summaries of earlier compressions along
compress_KeepsOldSummaries(c, l, msgs) ==
    IF Len(msgs) <= 1 THEN [msgs |-> msgs, err |-> FALSE, fresh |-> FALSE]
    ELSE LET sp == SplitByRole(msgs, <<>>, <<>>)
             conv == sp.conversationMsgs
             keepCount == c.keepRecentTurns * 2
         IN IF keepCount >= Len(conv) THEN [msgs |-> msgs, err |-> FALSE, fresh |-> FALSE]
            ELSE LET toKeep == SubSeq(conv, Len(conv) - keepCount + 1, Len(conv))
                     s == callSummarize(l)
                 IN IF s.err THEN [msgs |-> <<>>, err |-> TRUE, fresh |-> FALSE]
                    ELSE [msgs |-> sp.systemMsgs
                                   \o << FormatSummaryMessage(s.summary) >> \o toKeep,
                          err |-> FALSE, fresh |-> TRUE]

\* LLMCompressor.compress; fresh says that the result is a newly built
\* slice and not the slice given
compress(c, l, msgs) ==
    IF Len(msgs) <= 1 THEN [msgs |-> msgs, err |-> FALSE, fresh |-> FALSE]
    ELSE LET sp == SplitByRole(msgs, <<>>, <<>>)
             conv == sp.conversationMsgs
             keepCount == c.keepRecentTurns * 2
         IN IF keepCount >= Len(conv) THEN [msgs |-> msgs, err |-> FALSE, fresh |-> FALSE]
            ELSE LET toKeep == SubSeq(conv, Len(conv) - keepCount + 1, Len(conv))
                     s == callSummarize(l)
                 IN IF s.err THEN [msgs |-> <<>>, err |-> TRUE, fresh |-> FALSE]
                    ELSE [msgs |-> PreserveSystem(sp.systemMsgs, <<>>)
                                   \o << FormatSummaryMessage(s.summary) >> \o toKeep,
                          err |-> FALSE, fresh |-> TRUE]

CompressResult(compressed, didCompress, err, rebuilt) ==
    [compressed |-> compressed, didCompress |-> didCompress, err |-> err, rebuilt |-> rebuilt]

\* CompressIfNeeded handing the failure of the summary call to its caller
LLMCompressIfNeeded_ReturnsError(c, l, msgs, currentTokens) ==
    IF c.contextWindow <= 0 \/ currentTokens <= 0 THEN CompressResult(msgs, FALSE, FALSE, FALSE)
    ELSE IF currentTokens * 100 < c.threshold * c.contextWindow
         THEN CompressResult(msgs, FALSE, FALSE, FALSE)
         ELSE LET r == compress(c, l, msgs)
              IN IF r.err THEN CompressResult(<<>>, FALSE, TRUE, FALSE)
                 ELSE CompressResult(r.msgs,
                          Len(r.msgs) # Len(msgs) \/ (Len(r.msgs) > 0 /\ r.fresh),
                          FALSE, r.fresh)

\* LLMCompressor.CompressIfNeeded; the ratio test float64(currentTokens) /
\* float64(contextWindow) < threshold in per cent; the comparison of the
\* slices' first elements by address is r.fresh
LLMCompressIfNeeded(c, l, msgs, currentTokens) ==
    IF c.contextWindow <= 0 \/ currentTokens <= 0 THEN CompressResult(msgs, FALSE, FALSE, FALSE)
    ELSE IF currentTokens * 100 < c.threshold * c.contextWindow
         THEN CompressResult(msgs, FALSE, FALSE, FALSE)
         ELSE LET r == compress(c, l, msgs)
              IN IF r.err THEN CompressResult(msgs, FALSE, FALSE, FALSE)
                 ELSE CompressResult(r.msgs,
                          Len(r.msgs) # Len(msgs) \/ (Len(r.msgs) > 0 /\ r.fresh),
                          FALSE, r.fresh)

\* Compressor.CompressIfNeeded of the compressor the Compression middleware mw
\* was built with: the LLMCompressor ("llm"), or one of the three outcomes
\* the interface allows, where a compression keeps the first message (the
\* stub compressor of the tests).
CompressIfNeeded(mw, msgs, currentTokens) ==
    CASE mw.mode = "llm" -> mw.compressor[msgs, currentTokens]
      [] mw.mode = "compress" -> CompressResult(SubSeq(msgs, 1, 1), TRUE, FALSE, TRUE)
      [] mw.mode = "noneed" -> CompressResult(msgs, FALSE, FALSE, FALSE)
      [] OTHER -> CompressResult(<<>>, FALSE, TRUE, FALSE)

\* A chain member.  kind "stub" is a caller-supplied middleware: its pre hook
\* returns the stored patch (or an error), its post hook returns postRet and
\* hands the node error back ("propagate"), hides it ("swallow") or fails on
\* its own ("fail").
Middleware(kind, hasPre, pre, preErr, hasPost, postRet, postMode, mode, observer, dynamic, buildOk, outputs) ==
    [kind |-> kind, hasPre |-> hasPre, pre |-> pre, preErr |-> preErr,
     hasPost |-> hasPost, postRet |-> postRet, postMode |-> postMode,
     mode |-> mode, observer |-> observer, dynamic |-> dynamic,
     buildOk |-> buildOk, outputs |-> outputs]

StubMiddleware(hasPre, pre, preErr, postRet, postMode) ==
    Middleware("stub", hasPre, pre, preErr, TRUE, postRet, postMode, "", FALSE,
               FALSE, FALSE, <<>>)
CompressionMiddleware(mode, observer) ==
    Middleware("compression", TRUE, NilPatch, FALSE, FALSE, "nil", "", mode, observer,
               FALSE, FALSE, <<>>)
\* the LLMCompressor c over a model that answers as l, as the value a
\* middleware holds: its CompressIfNeeded
LLMCompressor(c, l) ==
    [msgs \in Seq(HistoryMessages), currentTokens \in Int |->
        LLMCompressIfNeeded(c, l, msgs, currentTokens)]

\* NewCompressionMiddleware(compressor, counter, observer) with an LLMCompressor
LLMCompressionMiddleware(c, l, observer) ==
    CompressionMiddleware("llm", observer) @@ [compressor |-> LLMCompressor(c, l)]
PromptInjectionMiddleware(dynamic, buildOk) ==
    Middleware("injection", dynamic, NilPatch, FALSE, FALSE, "nil", "", "", FALSE,
               dynamic, buildOk, <<>>)
ArtifactRecordMiddleware(outputs) ==
    Middleware("artifact", FALSE, NilPatch, FALSE, Len(outputs) > 0, "nil", "", "", FALSE,
               FALSE, FALSE, outputs)

\* the error a hook of a caller-supplied middleware returns on its own
HookError == PlainError("none", {"boom"})

PreResult(result, err, notified) == [result |-> result, err |-> err, notified |-> notified]

\* the compression callback handing the compressor's error to the engine
CompressionPreNode_ReturnsError(mw, msgs) ==
    IF msgs.kind # "list" \/ Len(msgs.list) <= 1 THEN PreResult(NilPatch, NilError, <<>>)
    ELSE LET estimatedTokens == Count(msgs.list)
             c == CompressIfNeeded(mw, msgs.list, estimatedTokens)
         IN IF c.err THEN PreResult(NilPatch, HookError, <<>>)
            ELSE IF ~c.didCompress THEN PreResult(NilPatch, NilError, <<>>)
            ELSE PreResult(
                    MessagesPatch(MessageOps(<<RemoveAllMessages, AppendMessages(c.compressed)>>)),
                    NilError,
                    IF mw.observer
                    THEN << [before |-> estimatedTokens, after |-> Count(c.compressed)] >>
                    ELSE <<>>)

\* the compression callback that never tells its observer
CompressionPreNode_SkipsObserver(mw, msgs) ==
    IF msgs.kind # "list" \/ Len(msgs.list) <= 1 THEN PreResult(NilPatch, NilError, <<>>)
    ELSE LET estimatedTokens == Count(msgs.list)
             c == CompressIfNeeded(mw, msgs.list, estimatedTokens)
         IN IF c.err \/ ~c.didCompress THEN PreResult(NilPatch, NilError, <<>>)
            ELSE PreResult(
                    MessagesPatch(MessageOps(<<RemoveAllMessages, AppendMessages(c.compressed)>>)),
                    NilError, <<>>)

\* CompressionMiddleware.WrapPreNode, the callback: notified lists the
\* observer's OnCompression(before, after) calls.
CompressionPreNode(mw, msgs) ==
    IF msgs.kind # "list" \/ Len(msgs.list) <= 1 THEN PreResult(NilPatch, NilError, <<>>)
    ELSE LET estimatedTokens == Count(msgs.list)
             c == CompressIfNeeded(mw, msgs.list, estimatedTokens)
         IN IF c.err \/ ~c.didCompress THEN PreResult(NilPatch, NilError, <<>>)
            ELSE PreResult(
                    MessagesPatch(MessageOps(<<RemoveAllMessages, AppendMessages(c.compressed)>>)),
                    NilError,
                    IF mw.observer
                    THEN << [before |-> estimatedTokens, after |-> Count(c.compressed)] >>
                    ELSE <<>>)

\* PromptInjectionMiddleware.WrapPreNode, the callback; BuildDynamic returns
\* the instruction "dyn" or fails.
PromptInjectionPreNode(mw, msgs) ==
    IF msgs.kind # "list" \/ Len(msgs.list) = 0 THEN PreResult(NilPatch, NilError, <<>>)
    ELSE IF msgs.list[1].role # "system" THEN PreResult(NilPatch, NilError, <<>>)
    ELSE IF ~mw.buildOk THEN PreResult(NilPatch, NilError, <<>>)
    ELSE PreResult(MessagesPatch(MessageList([msgs.list EXCEPT ![1] = NewSystemMessage("dyn")])),
                   NilError, <<>>)

\* the pre hook of a caller-supplied middleware
StubPreNode(mw, msgs) ==
    IF mw.preErr THEN PreResult(NilPatch, HookError, <<>>)
    ELSE PreResult(mw.pre, NilError, <<>>)

PreCallback(mw, msgs) ==
    CASE mw.kind = "compression" -> CompressionPreNode(mw, msgs)
      [] mw.kind = "injection" -> PromptInjectionPreNode(mw, msgs)
      [] OTHER -> StubPreNode(mw, msgs)

\* the members whose WrapPreNode / WrapPostNode returns a callback, in order
PreCallbacks(its) == SelectSeq([i \in 1..Len(its) |-> i], LAMBDA i : its[i].hasPre)
PostCallbacks(its) == SelectSeq([i \in 1..Len(its) |-> i], LAMBDA i : its[i].hasPost)

\* the merge with the earlier patch winning on a shared key
MergeInto_LeftWins(merged, st) ==
    [isState |-> TRUE,
     vals |-> merged.vals @@ st.vals,
     hasMsgs |-> merged.hasMsgs \/ st.hasMsgs,
     msgs |-> IF merged.hasMsgs THEN merged.msgs ELSE st.msgs]

\* for k, v := range st { merged[k] = v }
MergeInto(merged, st) ==
    [isState |-> TRUE,
     vals |-> st.vals @@ merged.vals,
     hasMsgs |-> merged.hasMsgs \/ st.hasMsgs,
     msgs |-> IF st.hasMsgs THEN st.msgs ELSE merged.msgs]

NoPreOut ==
    [called |-> FALSE, ret |-> NilPatch, merged |-> NilPatch, alias |-> 0, err |-> NilError,
     state |-> NoMessages, ran |-> <<>>, seen |-> <<>>, after |-> <<>>,
     patches |-> <<>>, errs |-> <<>>, notified |-> <<>>]

\* The callback MiddlewareChain.WrapPreNode returns, from its loop over the
\* remaining callbacks cbs.  acc records, per callback run: its index (ran),
\* the messages slot it was given (seen) and left (after), its patch and its
\* error; merged is the map the chain builds, alias the member whose
\* returned map it is.
RECURSIVE RunPreCallbacks(_, _, _)
RunPreCallbacks(cbs, its, acc) ==
    IF cbs = <<>> THEN [acc EXCEPT !.ret = acc.merged]
    ELSE LET i == Head(cbs)
             r == PreCallback(its[i], acc.state)
             rec == [acc EXCEPT !.ran = Append(@, i),
                                !.seen = Append(@, acc.state),
                                !.patches = Append(@, r.result),
                                !.errs = Append(@, r.err),
                                !.notified = @ \o [n \in 1..Len(r.notified) |->
                                                    [by |-> i, before |-> r.notified[n].before,
                                                     after |-> r.notified[n].after]]]
         IN IF ~r.err.isNil
            THEN [rec EXCEPT !.ret = NilPatch, !.err = r.err, !.after = Append(@, acc.state)]
            ELSE IF r.result.isState
            THEN LET st == r.result
                     newState == IF st.hasMsgs THEN st.msgs ELSE acc.state
                 IN RunPreCallbacks(Tail(cbs), its,
                        [rec EXCEPT !.merged = IF ~acc.merged.isState THEN st
                                               ELSE MergeInto(acc.merged, st),
                                    !.alias = IF ~acc.merged.isState THEN i ELSE acc.alias,
                                    !.state = newState,
                                    !.after = Append(@, newState)])
            ELSE RunPreCallbacks(Tail(cbs), its, [rec EXCEPT !.after = Append(@, acc.state)])

ChainPreNode(its, msgs) ==
    RunPreCallbacks(PreCallbacks(its), its, [NoPreOut EXCEPT !.called = TRUE, !.state = msgs])

PostResult(ret, err, recorded) == [ret |-> ret, err |-> err, recorded |-> recorded]

\* the step the chain's hooks are made for: WrapPostNode(stepID, step)
WrappedStep == [id |-> "s1", title |-> "Design"]

\* a call of ArtifactTracker.RecordCompleted
RecordCompletedCall(stepID, title, outputPath) ==
    [stepID |-> stepID, title |-> title, outputPath |-> outputPath]

\* the loop over step.Frontmatter.Output: one call per output, in list order
RecordOutputs(outputs) ==
    [j \in 1..Len(outputs) |->
        RecordCompletedCall(WrappedStep.id, WrappedStep.title, outputs[j])]

\* the artifact callback recording whether or not the node failed
ArtifactPostNode_RecordsOnError(mw, err) ==
    IF ~err.isNil THEN PostResult("nil", err, RecordOutputs(mw.outputs))
    ELSE PostResult("nil", NilError, RecordOutputs(mw.outputs))

\* ArtifactRecordMiddleware.WrapPostNode, the callback: recorded lists the
\* tracker's RecordCompleted calls.
ArtifactPostNode(mw, err) ==
    IF ~err.isNil THEN PostResult("nil", err, <<>>)
    ELSE PostResult("nil", NilError, RecordOutputs(mw.outputs))

\* the post hook of a caller-supplied middleware
StubPostNode(mw, err) ==
    CASE mw.postMode = "swallow" -> PostResult(mw.postRet, NilError, <<>>)
      [] mw.postMode = "fail" -> PostResult("nil", HookError, <<>>)
      [] OTHER -> IF err.isNil THEN PostResult(mw.postRet, NilError, <<>>)
                  ELSE PostResult("nil", err, <<>>)

PostCallback(mw, result, err) ==
    IF mw.kind = "artifact" THEN ArtifactPostNode(mw, err) ELSE StubPostNode(mw, err)

NoPostOut ==
    [called |-> FALSE, result |-> "nil", err |-> NilError, ran |-> <<>>, given |-> <<>>,
     rets |-> <<>>, errs |-> <<>>, recorded |-> <<>>]

\* the post loop going on after a callback returned an error
RECURSIVE RunPostCallbacks_IgnoresError(_, _, _, _)
RunPostCallbacks_IgnoresError(cbs, its, err, acc) ==
    IF cbs = <<>> THEN acc
    ELSE LET i == Head(cbs)
             r == PostCallback(its[i], acc.result, err)
             rec == [acc EXCEPT !.ran = Append(@, i),
                                !.given = Append(@, acc.result),
                                !.rets = Append(@, r.ret),
                                !.errs = Append(@, r.err),
                                !.recorded = @ \o r.recorded]
         IN RunPostCallbacks_IgnoresError(Tail(cbs), its, err,
                [rec EXCEPT !.result = IF r.ret # "nil" THEN r.ret ELSE acc.result,
                            !.err = IF ~r.err.isNil THEN r.err ELSE acc.err])

\* The callback MiddlewareChain.WrapPostNode returns, from its loop over the
\* remaining callbacks.  acc.result is the running result; given records the
\* result each callback was passed, rets and errs what it returned.
RECURSIVE RunPostCallbacks(_, _, _, _)
RunPostCallbacks(cbs, its, err, acc) ==
    IF cbs = <<>> THEN acc
    ELSE LET i == Head(cbs)
             r == PostCallback(its[i], acc.result, err)
             rec == [acc EXCEPT !.ran = Append(@, i),
                                !.given = Append(@, acc.result),
                                !.rets = Append(@, r.ret),
                                !.errs = Append(@, r.err),
                                !.recorded = @ \o r.recorded]
         IN IF ~r.err.isNil THEN [rec EXCEPT !.result = "nil", !.err = r.err]
            ELSE RunPostCallbacks(Tail(cbs), its, err,
                    [rec EXCEPT !.result = IF r.ret # "nil" THEN r.ret ELSE acc.result])

ChainPostNode(its, result, err) ==
    RunPostCallbacks(PostCallbacks(its), its, err,
                     [NoPostOut EXCEPT !.called = TRUE, !.result = result])

----------------------------------------------------------------------------
(* middleware configurations *)

MiddlewareChoices ==
    {StubMiddleware(FALSE, NilPatch, FALSE, "nil", "propagate"),
     StubMiddleware(TRUE, StatePatch("k1" :> "a"), FALSE, "nil", "propagate"),
     StubMiddleware(TRUE, StatePatch(("k1" :> "b") @@ ("k2" :> "c")), FALSE, "r1", "propagate"),
     StubMiddleware(TRUE, MessagesPatch(MessageList(<<Message("system", "sys"), Message("user", "u")>>)),
                    FALSE, "r2", "swallow"),
     StubMiddleware(TRUE, NilPatch, TRUE, "nil", "fail"),
     CompressionMiddleware("compress", TRUE),
     CompressionMiddleware("compress", FALSE),
     CompressionMiddleware("noneed", TRUE),
     CompressionMiddleware("fail", TRUE),
     PromptInjectionMiddleware(TRUE, TRUE),
     PromptInjectionMiddleware(TRUE, FALSE),
     PromptInjectionMiddleware(FALSE, TRUE),
     ArtifactRecordMiddleware(<<>>),
     ArtifactRecordMiddleware(<<"out1", "out2">>)}

RECURSIVE Chains(_)
Chains(n) ==
    IF n = 0 THEN {<<>>}
    ELSE Chains(n - 1) \cup
         {Append(c, m) : c \in {d \in Chains(n - 1) : Len(d) = n - 1}, m \in MiddlewareChoices}

RoleContent(role) ==
    CASE role = "system" -> "sys" [] role = "user" -> "u" [] OTHER -> "a"

RECURSIVE RoleSeqs(_)
RoleSeqs(n) ==
    IF n = 0 THEN {<<>>}
    ELSE RoleSeqs(n - 1) \cup
         {Append(q, r) : q \in {d \in RoleSeqs(n - 1) : Len(d) = n - 1}, r \in Roles}

\* the values the messages slot starts with
StateMessages ==
    {NoMessages} \cup
    {MessageList([i \in 1..Len(q) |-> Message(q[i], RoleContent(q[i]))]) : q \in RoleSeqs(MaxMsgs)}

PostInputs == [result : {"node_result"}, err : {NilError, LLMError}]

HookIdle ==
    /\ items = <<>>
    /\ preIn = NoMessages
    /\ stateMsgs = NoMessages
    /\ postIn = [result |-> "nil", err |-> NilError]
    /\ preOut = NoPreOut
    /\ postOut = NoPostOut
    /\ hphase = "idle"

----------------------------------------------------------------------------
(* token/monitor.go : the token monitor *)

\* the history cap; the source's cap of 1000 records, scaled to the model
maxUsageHistory == 2
\* Monitor.warningThreshold (0.8) and the critical ratio (0.95), in per cent
warningThreshold == 80
criticalThreshold == 95

TokenUsage(prompt, completion, total) ==
    [TurnNumber |-> 0, PromptTokens |-> prompt, CompletionTokens |-> completion,
     TotalTokens |-> total]

NewMonitor(maxTokens) ==
    [maxTokens |-> maxTokens, totalPromptTokens |-> 0, totalCompletionTokens |-> 0,
     totalTokens |-> 0, turnCount |-> 0, usageHistory |-> <<>>,
     warningThreshold |-> warningThreshold, pendingUpdate |-> FALSE]

\* RecordUsage that numbers the record before counting the turn
RecordUsage_StaleTurn(m, usage) ==
    LET h == Append(m.usageHistory, [usage EXCEPT !.TurnNumber = m.turnCount])
    IN [m EXCEPT !.totalPromptTokens = @ + usage.PromptTokens,
                 !.totalCompletionTokens = @ + usage.CompletionTokens,
                 !.totalTokens = @ + usage.TotalTokens,
                 !.turnCount = @ + 1,
                 !.usageHistory = IF Len(h) > maxUsageHistory
                                  THEN SubSeq(h, Len(h) - maxUsageHistory + 1, Len(h))
                                  ELSE h]

\* RecordUsage that leaves the completion tokens out of the cumulative count
RecordUsage_SkipsCompletion(m, usage) ==
    LET h == Append(m.usageHistory, [usage EXCEPT !.TurnNumber = m.turnCount + 1])
    IN [m EXCEPT !.totalPromptTokens = @ + usage.PromptTokens,
                 !.totalTokens = @ + usage.TotalTokens,
                 !.turnCount = @ + 1,
                 !.usageHistory = IF Len(h) > maxUsageHistory
                                  THEN SubSeq(h, Len(h) - maxUsageHistory + 1, Len(h))
                                  ELSE h]

\* Monitor.RecordUsage, the part under the lock
RecordUsage(m, usage) ==
    LET h == Append(m.usageHistory, [usage EXCEPT !.TurnNumber = m.turnCount + 1])
    IN [m EXCEPT !.totalPromptTokens = @ + usage.PromptTokens,
                 !.totalCompletionTokens = @ + usage.CompletionTokens,
                 !.totalTokens = @ + usage.TotalTokens,
                 !.turnCount = @ + 1,
                 !.usageHistory = IF Len(h) > maxUsageHistory
                                  THEN SubSeq(h, Len(h) - maxUsageHistory + 1, Len(h))
                                  ELSE h]

\* OnCompression that forgets the clamp of the total
OnCompression_NoClamp(m, beforeTokens, afterTokens) ==
    LET saved == beforeTokens - afterTokens
    IN IF saved <= 0 THEN m
       ELSE [m EXCEPT !.totalPromptTokens = IF @ - saved < 0 THEN 0 ELSE @ - saved,
                      !.totalTokens = @ - saved,
                      !.pendingUpdate = TRUE]

\* Monitor.OnCompression, the part under the lock
OnCompression(m, beforeTokens, afterTokens) ==
    LET saved == beforeTokens - afterTokens
    IN IF saved <= 0 THEN m
       ELSE [m EXCEPT !.totalPromptTokens = IF @ - saved < 0 THEN 0 ELSE @ - saved,
                      !.totalTokens = IF @ - saved < 0 THEN 0 ELSE @ - saved,
                      !.pendingUpdate = TRUE]

\* Monitor.Reset, the part under the lock
Reset(m) ==
    [m EXCEPT !.totalPromptTokens = 0, !.totalCompletionTokens = 0, !.totalTokens = 0,
              !.turnCount = 0, !.usageHistory = <<>>]

\* float64(n)/float64(d) >= pct/100 for d > 0; the division and the literal
\* round alike, so for token counts the comparison is the exact one
RatioAtLeast(n, d, pct) == n * 100 >= pct * d

\* IsWarning testing for more than the threshold
IsWarning_Strict(m) ==
    IF m.maxTokens <= 0 THEN FALSE
    ELSE m.totalTokens * 100 > m.warningThreshold * m.maxTokens

IsWarning(m) ==
    IF m.maxTokens <= 0 THEN FALSE
    ELSE RatioAtLeast(m.totalTokens, m.maxTokens, m.warningThreshold)

IsCritical(m) ==
    IF m.maxTokens <= 0 THEN FALSE
    ELSE RatioAtLeast(m.totalTokens, m.maxTokens, criticalThreshold)

\* Go's integer division, which truncates toward zero, for a positive divisor
GoDiv(a, b) == IF a >= 0 THEN a \div b ELSE -((-a) \div b)

\* float64(n)/float64(d)*100 as the exact fraction <<numerator, denominator>>
Percent(n, d) == <<n * 100, d>>

\* GetStats: the map literal, read from the fields in one statement
StatsTotals(m) ==
    ("maxTokens" :> m.maxTokens)
    @@ ("totalPromptTokens" :> m.totalPromptTokens)
    @@ ("totalCompletionTokens" :> m.totalCompletionTokens)
    @@ ("totalTokens" :> m.totalTokens)
    @@ ("remainingTokens" :> m.maxTokens - m.totalTokens)
    @@ ("turnCount" :> m.turnCount)

StatsPercent(m) == IF m.maxTokens > 0 THEN Percent(m.totalTokens, m.maxTokens) ELSE <<0, 1>>

\* GetStats: the averages, read from the fields after the map was built; the
\* remaining count is the local computed before it
StatsAverages(m, stats) ==
    IF m.turnCount > 0
    THEN LET avgTotal == GoDiv(m.totalTokens, m.turnCount)
         IN (IF avgTotal > 0
             THEN "estimatedRemainingTurns" :> GoDiv(stats["remainingTokens"], avgTotal)
             ELSE <<>>)
            @@ ("avgPromptTokens" :> GoDiv(m.totalPromptTokens, m.turnCount))
            @@ ("avgCompletionTokens" :> GoDiv(m.totalCompletionTokens, m.turnCount))
            @@ ("avgTotalTokens" :> avgTotal)
            @@ stats
    ELSE stats

\* Monitor.GetStats, the part under the read lock
GetStats(m) ==
    [map |-> StatsAverages(m, StatsTotals(m)), usagePercent |-> StatsPercent(m)]

(* the mutex and the goroutines calling the monitor *)

Threads == {"g1", "g2"}
NoThread == ""

\* sync.RWMutex: Lock waits for the writer and the readers to be gone, RLock
\* for the writer
Lock_NoExclusion(t) == TRUE
Lock(t) == mu.writer = NoThread /\ mu.readers = {}
RLock_NoExclusion(t) == TRUE
RLock(t) == mu.writer = NoThread
Unlocked == [writer |-> NoThread, readers |-> {}]

NoUsage == TokenUsage(0, 0, 0)
NoStats == [map |-> <<>>, usagePercent |-> <<0, 1>>]
ThreadIdle ==
    [pc |-> "idle", usage |-> NoUsage, before |-> 0, after |-> 0, ret |-> "none",
     stats |-> NoStats]
BoolRet(b) == IF b THEN "true" ELSE "false"

NoCompressOut == [called |-> FALSE, ret |-> CompressResult(<<>>, FALSE, FALSE, FALSE)]
NoHookOut == [called |-> FALSE, ret |-> PreResult(NilPatch, NilError, <<>>)]

CmpIdle ==
    /\ compressor = NewLLMCompressor(0, 0, 0)
    /\ llm = LLMOutcome("callerr", "")
    /\ cmpIn = [msgs |-> <<>>, currentTokens |-> 0]
    /\ cmpOut = NoCompressOut
    /\ hookOut = NoHookOut
    /\ cphase = "idle"

MonIdle ==
    /\ mon = NewMonitor(0)
    /\ mu = Unlocked
    /\ thr = [t \in Threads |-> ThreadIdle]
    /\ recLog = <<>>
    /\ fedConsistent = TRUE
    /\ nCompress = 0
    /\ raised = 0
    /\ drainTrue = 0

----------------------------------------------------------------------------
(* the components checked by the later specifications, parked *)

NilPtr == 0
\* the address of the map FileTracker.data
DataMap == 1

\* NewFileTracker: an empty data map, no ArtifactInfo allocated
EmptyHeap == [structs |-> <<>>, maps |-> (DataMap :> <<>>), next |-> DataMap + 1]
\* written: the caller has written through the value
NoHeld == [kind |-> "none", ref |-> NilPtr, written |-> FALSE]

TrkIdle ==
    /\ fsys = <<>>
    /\ heap = EmptyHeap
    /\ held = NoHeld
    /\ log = <<>>
    /\ lastOp = "idle"

NoGraph == [nodes |-> {}, again |-> {}, edges |-> <<>>, cond |-> <<>>,
            entry |-> NoNode, finish |-> NoNode]
\* what Build returns: the error ("" for nil) and the graph
BuildResult(err, g) == [err |-> err, graph |-> g]

BldIdle ==
    /\ bldIn = [steps |-> <<>>, AllowMissing |-> FALSE, strict |-> FALSE]
    /\ bldOut = [builder |-> "none", ret |-> BuildResult("", NoGraph)]

ValIdle == valIn = <<>> /\ valOut = [called |-> FALSE, errs |-> <<>>]

LdrIdle == ldrIn = <<>> /\ ldrOut = [called |-> FALSE, err |-> "", steps |-> <<>>]

\* no call of RenderTemplate made yet
NoRender == [whole |-> <<"?">>, again |-> <<"?">>, split |-> <<"?">>, calls |-> {}]
RndIdle == rndIn = [content |-> <<>>, A |-> <<>>, B |-> <<>>] /\ rndOut = NoRender

\* the later components other than the tracker and the builders
SumIdle ==
    /\ summarizer = [llmModel |-> "nil", cache |-> <<>>]
    /\ sumFS = <<>>
    /\ sumCalls = <<>>
    /\ sumLog = <<>>

PrgIdle ==
    /\ prgIn = [steps |-> <<>>, tracker |-> <<>>, current |-> ""]
    /\ prgOut = [called |-> FALSE, lines |-> <<>>, counter |-> <<0, 0>>]

LateIdle == SumIdle /\ PrgIdle

RestIdle == ValIdle /\ LdrIdle /\ RndIdle /\ LateIdle

ExtIdle == TrkIdle /\ BldIdle /\ RestIdle

----------------------------------------------------------------------------
(* flow run : one action per node execution and per routing decision *)

ClsIdle == clsErr = NilError /\ clsCode = "" /\ clsDone = FALSE

FlowIdle ==
    /\ builder = "none"
    /\ steps = [s \in StepIds |-> [tools |-> FALSE, fallback |-> NoFallback,
                                   advance |-> AdvanceAuto, next |-> ""]]
    /\ cur = NoNode
    /\ prev = NoNode
    /\ phase = "idle"
    /\ errCode = ""
    /\ toolCalls = FALSE
    /\ nodeErr = NilError
    /\ lastToolErr = NilError
    /\ payload = NoPayload
    /\ finished = {}
    /\ artifacts = {}
    /\ events = <<>>

\* the middlewares of FlowOptions in the runs checked: the prompt injection
\* in dynamic mode and the artifact recorder of a step that declares one output
FlowMiddlewares ==
    <<PromptInjectionMiddleware(TRUE, TRUE), ArtifactRecordMiddleware(<<"out1">>)>>

\* the error graph.Interrupt returns when no resume value is present
InterruptError == PlainError("none", {"interrupt"})

\* The post callback addConfirmNode attaches to a confirm node, applied to
\* what the node returned; the engine may or may not run post callbacks of a
\* node that returned an error (callOnError).
ConfirmPostHook(b, err, callOnError) ==
    IF b \in {"graph", "chain"} /\ (err.isNil \/ callOnError)
    THEN ChainPostNode(FlowMiddlewares, "nil", err)
    ELSE NoPostOut

\* What runs when the engine executes an LLM node: the pre callback the
\* builder installed when the chain has one, the model call, and in a graph
\* flow the post callback clearPipelineErrorCode.
LLMNodeEvents(b) ==
    (IF PreCallbacks(FlowMiddlewares) # <<>> THEN <<"pre">> ELSE <<>>)
    \o <<"llm">>
    \o (IF b = "graph" THEN <<"llm_post">> ELSE <<>>)

\* What runs when the engine executes a confirm node: the node, which
\* completes or suspends, and the post callback when it is called.
ConfirmNodeEvents(interrupt, post) ==
    IF interrupt THEN <<"suspend">> \o (IF post.called THEN <<"suspend_post">> ELSE <<>>)
    ELSE <<"confirm">> \o (IF post.called THEN <<"confirm_post">> ELSE <<>>)

FlowInit ==
    /\ builder \in Builders
    /\ steps \in StepConfigs
    /\ cur = EntryPoint(builder)
    /\ prev = NoNode
    /\ phase = "ready"
    /\ errCode = ""
    /\ toolCalls = FALSE
    /\ nodeErr = NilError
    /\ lastToolErr = NilError
    /\ payload = NoPayload
    /\ finished = {}
    /\ artifacts = {}
    /\ events = <<>>
    /\ ExtIdle
    /\ ClsIdle
    /\ HookIdle
    /\ MonIdle
    /\ CmpIdle

\* The LLM node of a step runs one turn: the model call, then the post hook;
\* the turn ends with a text, with tool calls, or with an error.
RunLLMNodeWith(outcome) ==
    /\ phase = "ready"
    /\ cur.kind = "llm"
    /\ outcome = "tool_calls" => NodeHasTools(builder, steps, cur)
    /\ LET callErr == IF outcome = "error" THEN LLMError ELSE NilError
           post == LLMPostHook(builder, TRUE, callErr)
       IN /\ nodeErr' = post.err
          /\ phase' = IF post.err.isNil THEN "ran" ELSE "failed"
          /\ errCode' = IF post.patch THEN post.code ELSE errCode
          /\ toolCalls' = (outcome = "tool_calls")
          /\ finished' = IF post.err.isNil THEN finished \cup {cur} ELSE finished
    /\ events' = LLMNodeEvents(builder)
    /\ UNCHANGED <<builder, steps, cur, prev, lastToolErr, payload, artifacts, nonFlowVars>>

RunLLMNode == \E outcome \in {"text", "tool_calls", "error"} : RunLLMNodeWith(outcome)

\* The tools node runs the requested tool calls; the underlying call either
\* returns a state or raises an error.
RunToolsNode ==
    /\ phase = "ready"
    /\ cur.kind = "tools"
    /\ \E baseErr \in FlowToolErrors \cup {NilError} :
        LET res == ToolsNodeFunc(builder, baseErr, TRUE)
        IN /\ lastToolErr' = baseErr
           /\ nodeErr' = res.err
           /\ phase' = IF res.err.isNil THEN "ran" ELSE "failed"
           /\ errCode' = IF res.patch THEN res.code ELSE errCode
           /\ finished' = IF res.err.isNil THEN finished \cup {cur} ELSE finished
    /\ events' = Append(events, "tools")
    /\ UNCHANGED <<builder, steps, cur, prev, toolCalls, payload, artifacts, nonFlowVars>>

\* The confirm node of a step runs, then its post callback.
RunConfirmNode ==
    /\ phase = "ready"
    /\ cur.kind = "confirm"
    /\ \E callOnError \in BOOLEAN :
        LET res == makeConfirmNode(cur.step, steps[cur.step].advance)
            post == ConfirmPostHook(builder, IF res.interrupt THEN InterruptError ELSE NilError,
                                    callOnError)
        IN /\ phase' = IF res.interrupt THEN "suspended" ELSE "ran"
           /\ payload' = res.payload
           /\ errCode' = IF res.patch THEN res.code ELSE errCode
           /\ finished' = IF res.interrupt THEN finished ELSE finished \cup {cur}
           /\ artifacts' = IF post.recorded # <<>> THEN artifacts \cup {cur.step}
                           ELSE artifacts
           /\ events' = events \o ConfirmNodeEvents(res.interrupt, post)
    /\ UNCHANGED <<builder, steps, cur, prev, toolCalls, nodeErr, lastToolErr, nonFlowVars>>

\* A caller resumes a suspended run: graph.Interrupt returns the resume
\* value, the confirm node completes with no patch and its post callback runs.
Resume ==
    /\ phase = "suspended"
    /\ phase' = "ran"
    /\ finished' = finished \cup {cur}
    /\ artifacts' = IF ConfirmPostHook(builder, NilError, FALSE).recorded # <<>>
                    THEN artifacts \cup {cur.step} ELSE artifacts
    /\ events' = events \o ConfirmNodeEvents(FALSE, ConfirmPostHook(builder, NilError, FALSE))
    /\ UNCHANGED <<builder, steps, cur, prev, errCode, toolCalls, nodeErr,
                   lastToolErr, payload, nonFlowVars>>

\* The engine follows the edge out of the node that completed.
Route ==
    /\ phase = "ran"
    /\ \E t \in Targets(builder, steps, cur, errCode, toolCalls) :
        /\ cur' = t
        /\ phase' = CASE t = End -> "done" [] t = NoNode -> "halted" [] OTHER -> "ready"
    /\ prev' = cur
    /\ payload' = NoPayload
    /\ events' = CASE cur.kind = "llm" -> Append(events, "route")
                    [] cur.kind = "tools" -> Append(events, "router")
                    [] OTHER -> <<>>
    /\ UNCHANGED <<builder, steps, errCode, toolCalls, nodeErr, lastToolErr, finished,
                   artifacts, nonFlowVars>>

FlowNext == RunLLMNode \/ RunToolsNode \/ RunConfirmNode \/ Resume \/ Route

FlowSpec == FlowInit /\ [][FlowNext]_vars

\* The engine keeps executing a run that can go on, a suspended run is
\* resumed, and a model that is asked again and again ends a turn with a
\* text at some point.
FlowFairSpec == FlowSpec /\ WF_vars(FlowNext) /\ SF_vars(RunLLMNodeWith("text"))

----------------------------------------------------------------------------
(* classifier harness *)

ClassifyInit ==
    /\ clsErr \in ClassifyInputs
    /\ clsCode = ""
    /\ clsDone = FALSE
    /\ ExtIdle
    /\ FlowIdle
    /\ HookIdle
    /\ MonIdle
    /\ CmpIdle

Classify ==
    /\ ~clsDone
    /\ clsCode' = ClassifyToolError(clsErr)
    /\ clsDone' = TRUE
    /\ UNCHANGED <<clsErr, nonClsVars>>

ClassifyNext == Classify

ClassifySpec == ClassifyInit /\ [][ClassifyNext]_vars

----------------------------------------------------------------------------
(* middleware chain harness *)

HookInit ==
    /\ items \in Chains(MaxChain)
    /\ preIn \in StateMessages
    /\ stateMsgs = NoMessages
    /\ postIn \in PostInputs
    /\ preOut = NoPreOut
    /\ postOut = NoPostOut
    /\ hphase = "built"
    /\ ExtIdle
    /\ FlowIdle
    /\ ClsIdle
    /\ MonIdle
    /\ CmpIdle

\* The engine calls the chained pre hook before an LLM node, with a copy of
\* the state of the run.  The chain writes forwarded messages into the state
\* it was given, and the map it merges into is the map the first
\* contributing member returned.
InvokePreNode ==
    /\ hphase \in {"built", "pre", "post"}
    /\ PreCallbacks(items) # <<>>
    /\ LET out == ChainPreNode(items, preIn)
       IN /\ preOut' = out
          /\ stateMsgs' = out.state
          /\ items' = IF out.alias # 0 /\ items[out.alias].kind = "stub"
                      THEN [items EXCEPT ![out.alias].pre = out.merged]
                      ELSE items
    /\ hphase' = "pre"
    /\ UNCHANGED <<preIn, postIn, postOut, nonHookVars>>

\* The engine calls the chained post hook after a confirm node.
InvokePostNode ==
    /\ hphase \in {"built", "pre", "post"}
    /\ PostCallbacks(items) # <<>>
    /\ postOut' = ChainPostNode(items, postIn.result, postIn.err)
    /\ hphase' = "post"
    /\ UNCHANGED <<items, preIn, stateMsgs, postIn, preOut, nonHookVars>>

HookNext == InvokePreNode \/ InvokePostNode

HookSpec == HookInit /\ [][HookNext]_vars

----------------------------------------------------------------------------
(* token monitor harness : goroutines calling the methods of one Monitor *)

MaxTokensChoices == {-1, 0, 20}

\* usage records as ProcessEvent copies them from a response: the provider
\* reports the total on its own
UsageChoices == {TokenUsage(6, 2, 8), TokenUsage(2, 1, 3), TokenUsage(2, 1, 4)}

\* (beforeTokens, afterTokens)
CompressionArgs == {<<5, 2>>, <<2, 2>>, <<2, 5>>, <<30, 0>>}

MonitorInit ==
    /\ mon \in {NewMonitor(m) : m \in MaxTokensChoices}
    /\ mu = Unlocked
    /\ thr = [t \in Threads |-> ThreadIdle]
    /\ recLog = <<>>
    /\ fedConsistent = TRUE
    /\ nCompress = 0
    /\ raised = 0
    /\ drainTrue = 0
    /\ ExtIdle
    /\ FlowIdle
    /\ ClsIdle
    /\ HookIdle
    /\ CmpIdle

\* a goroutine enters a method that takes the write lock
Enter(t, pc, usage, before, after) ==
    /\ thr[t].pc = "idle"
    /\ Lock(t)
    /\ mu' = [mu EXCEPT !.writer = t]
    /\ thr' = [thr EXCEPT ![t] = [pc |-> pc, usage |-> usage, before |-> before,
                                  after |-> after, ret |-> "none", stats |-> NoStats]]
    /\ UNCHANGED <<mon, recLog, fedConsistent, nCompress, raised, drainTrue, nonMonVars>>

\* a goroutine enters a method that takes the read lock
EnterRead(t, pc) ==
    /\ thr[t].pc = "idle"
    /\ RLock(t)
    /\ mu' = [mu EXCEPT !.readers = @ \cup {t}]
    /\ thr' = [thr EXCEPT ![t] = [ThreadIdle EXCEPT !.pc = pc]]
    /\ UNCHANGED <<mon, recLog, fedConsistent, nCompress, raised, drainTrue, nonMonVars>>

\* the deferred Unlock together with the return
Return(t, ret) ==
    /\ mu' = [mu EXCEPT !.writer = NoThread]
    /\ thr' = [thr EXCEPT ![t] = [ThreadIdle EXCEPT !.ret = ret]]

CallRecordUsage(t) ==
    /\ Len(recLog) < MaxRecords
    /\ \E u \in UsageChoices : Enter(t, "RecordUsage", u, 0, 0)

DoRecordUsage(t) ==
    /\ thr[t].pc = "RecordUsage"
    /\ mon' = RecordUsage(mon, thr[t].usage)
    /\ recLog' = Append(recLog, thr[t].usage)
    /\ fedConsistent' = (fedConsistent /\ thr[t].usage.TotalTokens =
                            thr[t].usage.PromptTokens + thr[t].usage.CompletionTokens)
    /\ Return(t, "none")
    /\ UNCHANGED <<nCompress, raised, drainTrue, nonMonVars>>

CallOnCompression(t) ==
    /\ nCompress < MaxCompressions
    /\ \E ba \in CompressionArgs : Enter(t, "OnCompression", NoUsage, ba[1], ba[2])

DoOnCompression(t) ==
    /\ thr[t].pc = "OnCompression"
    /\ mon' = OnCompression(mon, thr[t].before, thr[t].after)
    /\ nCompress' = nCompress + 1
    /\ raised' = IF ~mon.pendingUpdate /\ mon'.pendingUpdate THEN raised + 1 ELSE raised
    /\ Return(t, "none")
    /\ UNCHANGED <<recLog, fedConsistent, drainTrue, nonMonVars>>

CallDrainPendingUpdate(t) == Enter(t, "DrainTest", NoUsage, 0, 0)

\* DrainPendingUpdate: the test of the flag
DrainTest(t) ==
    /\ thr[t].pc = "DrainTest"
    /\ IF ~mon.pendingUpdate
       THEN Return(t, "false")
       ELSE /\ thr' = [thr EXCEPT ![t].pc = "DrainClear"]
            /\ UNCHANGED mu
    /\ UNCHANGED <<mon, recLog, fedConsistent, nCompress, raised, drainTrue, nonMonVars>>

\* DrainPendingUpdate: the clearing of the flag and the return
DrainClear(t) ==
    /\ thr[t].pc = "DrainClear"
    /\ mon' = [mon EXCEPT !.pendingUpdate = FALSE]
    /\ drainTrue' = drainTrue + 1
    /\ Return(t, "true")
    /\ UNCHANGED <<recLog, fedConsistent, nCompress, raised, nonMonVars>>

CallReset(t) == Enter(t, "Reset", NoUsage, 0, 0)

DoReset(t) ==
    /\ thr[t].pc = "Reset"
    /\ mon' = Reset(mon)
    /\ recLog' = <<>>
    /\ Return(t, "none")
    /\ UNCHANGED <<fedConsistent, nCompress, raised, drainTrue, nonMonVars>>

CallIsWarning(t) == EnterRead(t, "IsWarning")

CallIsCritical(t) == EnterRead(t, "IsCritical")

\* IsWarning and IsCritical: the test under the read lock and the return
DoQuery(t) ==
    /\ thr[t].pc \in {"IsWarning", "IsCritical"}
    /\ mu' = [mu EXCEPT !.readers = @ \ {t}]
    /\ thr' = [thr EXCEPT ![t] = [ThreadIdle EXCEPT !.ret =
                  BoolRet(IF thr[t].pc = "IsWarning" THEN IsWarning(mon) ELSE IsCritical(mon))]]
    /\ UNCHANGED <<mon, recLog, fedConsistent, nCompress, raised, drainTrue, nonMonVars>>

CallGetStats(t) == EnterRead(t, "GetStats")

\* GetStats: the remaining count, the percentage and the map literal
ReadTotals(t) ==
    /\ thr[t].pc = "GetStats"
    /\ thr' = [thr EXCEPT ![t].pc = "GetStatsAvg",
                          ![t].stats = [map |-> StatsTotals(mon),
                                        usagePercent |-> StatsPercent(mon)]]
    /\ UNCHANGED <<mon, mu, recLog, fedConsistent, nCompress, raised, drainTrue, nonMonVars>>

\* the map GetStats is about to return: the literal it built, with the
\* averages read from the fields now
StatsReturned(t) == [thr[t].stats EXCEPT !.map = StatsAverages(mon, @)]

\* GetStats: the averages, the deferred RUnlock and the return; the caller
\* takes the map away
ReadAverages(t) ==
    /\ thr[t].pc = "GetStatsAvg"
    /\ mu' = [mu EXCEPT !.readers = @ \ {t}]
    /\ thr' = [thr EXCEPT ![t] = [ThreadIdle EXCEPT !.ret = "stats"]]
    /\ UNCHANGED <<mon, recLog, fedConsistent, nCompress, raised, drainTrue, nonMonVars>>

MonitorNext ==
    \E t \in Threads :
        \/ CallRecordUsage(t) \/ DoRecordUsage(t)
        \/ CallOnCompression(t) \/ DoOnCompression(t)
        \/ CallDrainPendingUpdate(t) \/ DrainTest(t) \/ DrainClear(t)
        \/ CallReset(t) \/ DoReset(t)
        \/ CallIsWarning(t) \/ CallIsCritical(t) \/ DoQuery(t)
        \/ CallGetStats(t) \/ ReadTotals(t) \/ ReadAverages(t)

MonitorSpec == MonitorInit /\ [][MonitorNext]_vars

----------------------------------------------------------------------------
(* compressor harness : CompressIfNeeded called directly, and through the
   Compression pre hook with the monitor as observer *)

RECURSIVE Histories(_)
Histories(n) ==
    IF n = 0 THEN {<<>>}
    ELSE Histories(n - 1) \cup
         {Append(q, m) : q \in {d \in Histories(n - 1) : Len(d) = n - 1}, m \in HistoryMessages}

\* no context window; the default threshold; a threshold of a half; the
\* default number of recent turns
Compressors ==
    {NewLLMCompressor(0, 0, 1), NewLLMCompressor(12, 0, 1), NewLLMCompressor(12, 50, 1),
     NewLLMCompressor(12, 50, 0)}

LLMOutcomes ==
    {LLMOutcome("callerr", ""), LLMOutcome("streamerr", ""), LLMOutcome("text", "  "),
     LLMOutcome("text", "brief"), LLMOutcome("text", " long digest ")}

\* the list with the token count the caller passes: none, or the counter's
CompressInputs ==
    UNION {{[msgs |-> q, currentTokens |-> t] : t \in {0, Count(q)}} : q \in Histories(MaxHistory)}

CompressInit ==
    /\ compressor \in Compressors
    /\ llm \in LLMOutcomes
    /\ cmpIn \in CompressInputs
    /\ cmpOut = NoCompressOut
    /\ hookOut = NoHookOut
    /\ cphase = "built"
    /\ mon = RecordUsage(NewMonitor(20), TokenUsage(6, 2, 8))
    /\ mu = Unlocked
    /\ thr = [t \in Threads |-> ThreadIdle]
    /\ recLog = << TokenUsage(6, 2, 8) >>
    /\ fedConsistent = TRUE
    /\ nCompress = 0
    /\ raised = 0
    /\ drainTrue = 0
    /\ ExtIdle
    /\ FlowIdle
    /\ ClsIdle
    /\ HookIdle

CallCompressIfNeeded ==
    /\ cphase \in {"built", "called", "hooked"}
    /\ cmpOut' = [called |-> TRUE,
                  ret |-> LLMCompressIfNeeded(compressor, llm, cmpIn.msgs, cmpIn.currentTokens)]
    /\ cphase' = "called"
    /\ UNCHANGED <<compressor, llm, cmpIn, hookOut, monVars, flowVars, clsVars, hookVars, extVars, lateVars>>

\* the observer's OnCompression calls, applied to the monitor in order
RECURSIVE Notify(_, _)
Notify(m, notified) ==
    IF notified = <<>> THEN m
    ELSE Notify(OnCompression(m, Head(notified).before, Head(notified).after), Tail(notified))

\* The engine calls the pre hook of a Compression middleware built with the
\* LLM compressor and the monitor as observer.
InvokeCompressionHook ==
    /\ cphase \in {"built", "called", "hooked"}
    /\ LET r == CompressionPreNode(LLMCompressionMiddleware(compressor, llm, TRUE),
                                    MessageList(cmpIn.msgs))
       IN /\ hookOut' = [called |-> TRUE, ret |-> r]
          /\ mon' = Notify(mon, r.notified)
          /\ nCompress' = nCompress + Len(r.notified)
          /\ raised' = IF ~mon.pendingUpdate /\ mon'.pendingUpdate THEN raised + 1 ELSE raised
    /\ nCompress < MaxCompressions
    /\ cphase' = "hooked"
    /\ UNCHANGED <<compressor, llm, cmpIn, cmpOut, mu, thr, recLog, fedConsistent, drainTrue,
                   flowVars, clsVars, hookVars, extVars, lateVars>>

CompressNext == CallCompressIfNeeded \/ InvokeCompressionHook

CompressSpec == CompressInit /\ [][CompressNext]_vars

----------------------------------------------------------------------------
(* Claims on the flow run (FlowSpec) *)

\* C1: in every flow built by GraphBuilder, ChainBuilder or AgentBuilder,
\* when the underlying tool call of a tools node raises an error the tools
\* node returns no error: the error is classified, the code is written to
\* pipeline_error_code and the run continues by routing.
C1_ToolErrorTrapped ==
    (cur.kind = "tools" /\ phase \in {"ran", "failed"} /\ ~lastToolErr.isNil)
        => /\ phase = "ran"
           /\ nodeErr.isNil
           /\ errCode = ClassifyToolError(lastToolErr)

\* The node the claim C2 names as the successor of s:tools for code c.
C2_ClaimedNext(stepID, c) ==
    LET fb == steps[stepID].fallback IN
    IF c = "" THEN LLMNodeID(stepID)
    ELSE IF c \in DOMAIN fb THEN LLMNodeID(fb[c])
    ELSE IF "default" \in DOMAIN fb THEN LLMNodeID(fb["default"])
    ELSE LLMNodeID(stepID)

\* C2: in a graph flow, after s:tools has run with pipeline_error_code c, the
\* next node is s when c is empty, fallback[c] when c is a key of s.fallback,
\* else fallback[default] when there is a default key, else s.
C2_FallbackRouting ==
    (builder = "graph" /\ prev.kind = "tools" /\ phase \in {"ready", "halted"})
        => cur = C2_ClaimedNext(prev.step, errCode)

\* C3: for every advance value a step carries, the confirm node suspends
\* only when advance is confirm or block, every payload has stage = step id
\* and advance "confirm" or "block", and for auto it returns without
\* suspending, with a patch that sets pipeline_error_code to empty.
C3_SuspendsOnlyConfirmOrBlock ==
    /\ phase = "suspended"
        => /\ steps[cur.step].advance \in {AdvanceConfirm, AdvanceBlock}
           /\ payload.stage = cur.step
           /\ payload.advance \in {"confirm", "block"}
    /\ (cur.kind = "confirm" /\ phase = "ran" /\ ~payload.set)
        => steps[cur.step].advance = AdvanceAuto /\ errCode = ""

\* C4: in flows built by GraphBuilder and ChainBuilder, right after a step's
\* LLM node completes a turn without error, pipeline_error_code is empty.
C4_LLMTurnClearsCode ==
    (builder \in {"graph", "chain"} /\ cur.kind = "llm" /\ phase = "ran")
        => errCode = ""

\* C5: in every reachable state pipeline_error_code is empty or one of the
\* eight ErrorCode strings, whatever error a tool raises.
C5_CodeInClosedSet == errCode \in ErrorCodes \cup {""}

----------------------------------------------------------------------------
(* Claims on the classifier (ClassifySpec) *)

\* the explicit code an error carries: that of its outermost ToolError
C6_ExplicitCode(e) == IF e.tool = <<>> THEN "" ELSE e.tool[1]

\* the rules of C6 in their order: whether a rule matches, and its result
C6_Rules(e) ==
    LET has(k) == Contains(ErrorString(e), k) IN
    << [m |-> e.isNil, r |-> ""],
       [m |-> C6_ExplicitCode(e) # "", r |-> C6_ExplicitCode(e)],
       [m |-> e.hasLeaf /\ e.ctx # "none", r |-> "timeout"],
       [m |-> has("assert"), r |-> "assertion_fail"],
       [m |-> has("lint"), r |-> "lint_error"],
       [m |-> has("compile") \/ has("syntax"), r |-> "compile_error"],
       [m |-> has("timeout") \/ has("timed out"), r |-> "timeout"],
       [m |-> has("tool") /\ has("not found"), r |-> "tool_unavailable"],
       [m |-> has("unavailable") \/ has("connection refused"), r |-> "tool_unavailable"],
       [m |-> has("not found") \/ has("missing"), r |-> "input_missing"],
       [m |-> TRUE, r |-> "runtime_error"] >>

C6_Matching(e) == {i \in 1..Len(C6_Rules(e)) : C6_Rules(e)[i].m}

C6_First(e) == CHOOSE i \in C6_Matching(e) : \A j \in C6_Matching(e) : i <= j

\* C6: ClassifyToolError returns the result of the first matching rule in
\* the fixed order nil, explicit code, context, assert, lint, compile/syntax,
\* timeout/timed out, tool+not found, unavailable/connection refused,
\* not found/missing, runtime_error; when several match the earliest wins.
C6_FirstMatchingRuleWins ==
    clsDone => clsCode = C6_Rules(clsErr)[C6_First(clsErr)].r

\* an error whose message matches the assert rule and the lint rule
C6_Witness ==
    /\ clsDone
    /\ C6_ExplicitCode(clsErr) = ""
    /\ ~ErrorsIsContext(clsErr)
    /\ {4, 5} \subseteq C6_Matching(clsErr)
    /\ clsCode = "assertion_fail"

----------------------------------------------------------------------------
(* Claims on the middleware chain (HookSpec) *)

SetMax(S) == CHOOSE x \in S : \A y \in S : y <= x

\* the plain keys some patch of a run sets
C7_Keys(patches) ==
    UNION {DOMAIN patches[j].vals : j \in {i \in 1..Len(patches) : patches[i].isState}}

\* C7: the chained pre hook runs the member pre hooks in insertion order and
\* returns the left-to-right merge of their patches: for every key the
\* merged value is that of the last hook whose patch has the key, and keys
\* set only by earlier hooks are kept.
C7_LeftToRightMerge ==
    (preOut.called /\ preOut.err.isNil) =>
        LET ran == preOut.ran
            patches == preOut.patches
            states == {j \in 1..Len(patches) : patches[j].isState}
            withMsgs == {j \in states : patches[j].hasMsgs}
        IN /\ \A k \in 1..(Len(ran) - 1) : ran[k] < ran[k + 1]
           /\ {ran[k] : k \in 1..Len(ran)} = {i \in 1..Len(items) : items[i].hasPre}
           /\ preOut.ret.isState = (states # {})
           /\ DOMAIN preOut.ret.vals = C7_Keys(patches)
           /\ \A key \in C7_Keys(patches) :
                preOut.ret.vals[key] =
                    patches[SetMax({j \in states : key \in DOMAIN patches[j].vals})].vals[key]
           /\ preOut.ret.hasMsgs = (withMsgs # {})
           /\ withMsgs # {} => preOut.ret.msgs = patches[SetMax(withMsgs)].msgs

\* two hooks set k1, only the first sets k2: k1 is the second's, k2 is kept
C7_Witness ==
    /\ preOut.called
    /\ preOut.err.isNil
    /\ Len(preOut.ran) = 2
    /\ preOut.patches[1].vals = ("k1" :> "b") @@ ("k2" :> "c")
    /\ preOut.patches[2].vals = ("k1" :> "a")
    /\ preOut.ret.vals = ("k1" :> "a") @@ ("k2" :> "c")

\* the message list a messages patch stands for: the list itself, or the
\* operations applied in order
RECURSIVE ApplyOps(_, _)
ApplyOps(ops, base) ==
    IF ops = <<>> THEN base
    ELSE ApplyOps(Tail(ops),
                  IF Head(ops).op = "remove_all" THEN <<>> ELSE base \o Head(ops).items)

C8_UpdatedList(m) == IF m.kind = "list" THEN m.list ELSE ApplyOps(m.ops, <<>>)

\* C8: within one invocation of the chained pre hook, whenever an earlier
\* hook's patch holds an updated message list, every later hook is given a
\* state whose messages are that updated list; a hook after the Compression
\* middleware is given the compressed message list.
C8_LaterHooksSeeUpdatedList ==
    preOut.called =>
        \A k \in 2..Len(preOut.ran) :
            LET upd == {j \in 1..(k - 1) :
                          preOut.patches[j].isState /\ preOut.patches[j].hasMsgs}
            IN upd # {} =>
                preOut.seen[k] = MessageList(C8_UpdatedList(preOut.patches[SetMax(upd)].msgs))

\* the running result after the first k callbacks of a post run
C9_Running(k) ==
    LET repl == {j \in 1..k : postOut.rets[j] # "nil"}
    IN IF repl = {} THEN postIn.result ELSE postOut.rets[SetMax(repl)]

\* the part of C9 on order and result: the post hooks run in insertion
\* order, each is given the running result, a non-nil return replaces it, a
\* nil return leaves it, and the chain returns it
C9_OrderAndResult ==
    LET cbs == PostCallbacks(items)
        n == Len(postOut.ran)
    IN /\ n <= Len(cbs)
       /\ \A k \in 1..n : postOut.ran[k] = cbs[k]
       /\ \A k \in 1..n : postOut.given[k] = C9_Running(k - 1)
       /\ postOut.err.isNil => (n = Len(cbs) /\ postOut.result = C9_Running(n))

\* C9 as stated: the post hooks run in insertion order, a non-nil return
\* replaces the running result, a nil return leaves it, and when the node
\* error is non-nil the chain short-circuits: the remaining post hooks are
\* not run.
C9_NodeErrorShortCircuits ==
    postOut.called =>
        /\ C9_OrderAndResult
        /\ ~postIn.err.isNil => Len(postOut.ran) <= 1

\* C9 (amended): the post hooks run in insertion order, a non-nil return
\* replaces the running result and a nil return leaves it; the chain stops
\* at the first hook that returns an error, returning that error and no
\* result without running the remaining hooks.  It does not look at the
\* node error itself: a non-nil node error stops the chain at the first
\* hook only when that hook hands it back (as the ArtifactRecord hook does).
C9_StopsAtFirstHookError ==
    postOut.called =>
        LET n == Len(postOut.ran) IN
        /\ C9_OrderAndResult
        /\ \A k \in 1..(n - 1) : postOut.errs[k].isNil
        /\ ~postOut.err.isNil =>
              (n >= 1 /\ postOut.errs[n] = postOut.err /\ postOut.result = "nil")
        /\ postOut.err.isNil => \A k \in 1..n : postOut.errs[k].isNil
        /\ (~postIn.err.isNil /\ n >= 1 /\ items[postOut.ran[1]].kind = "artifact")
              => (n = 1 /\ postOut.err = postIn.err)

\* a node error handed back by the first of two post hooks: the second one
\* is not run
C9_Witness ==
    /\ postOut.called
    /\ ~postIn.err.isNil
    /\ Len(PostCallbacks(items)) = 2
    /\ Len(postOut.ran) = 1
    /\ postOut.err = postIn.err
    /\ postOut.result = "nil"

\* the cases of C10 in which a hook has nothing to return
C10_NothingToDo(mw, s) ==
    IF mw.kind = "compression"
    THEN s.kind # "list" \/ Len(s.list) < 2 \/ mw.mode \in {"noneed", "fail"}
    ELSE s.kind # "list" \/ Len(s.list) = 0 \/ s.list[1].role # "system" \/ ~mw.buildOk

\* C10: the pre hooks of the Compression and PromptInjection middlewares
\* never return an error; with fewer than two messages, no compression
\* needed, a failing compressor, a first message that is not a system
\* message or a failing BuildDynamic, the hook returns a null patch, leaves
\* the state's messages as they were and does not notify the observer.
C10_HooksNeverFail ==
    preOut.called =>
        \A k \in 1..Len(preOut.ran) :
            LET mw == items[preOut.ran[k]] IN
            mw.kind \in {"compression", "injection"} =>
                /\ preOut.errs[k].isNil
                /\ C10_NothingToDo(mw, preOut.seen[k]) =>
                      /\ preOut.patches[k] = NilPatch
                      /\ preOut.after[k] = preOut.seen[k]
                      /\ \A n \in 1..Len(preOut.notified) :
                            preOut.notified[n].by # preOut.ran[k]

\* a compression hook with an observer whose compressor failed
C10_Witness ==
    /\ preOut.called
    /\ \E k \in 1..Len(preOut.ran) :
        /\ items[preOut.ran[k]].kind = "compression"
        /\ items[preOut.ran[k]].mode = "fail"
        /\ items[preOut.ran[k]].observer
        /\ preOut.seen[k].kind = "list"
        /\ Len(preOut.seen[k].list) >= 2
        /\ preOut.patches[k] = NilPatch
        /\ preOut.err.isNil

----------------------------------------------------------------------------
(* Claims on the token monitor (MonitorSpec) *)

\* C14 as claimed: after RecordUsage calls with any usage records, and no
\* OnCompression so far, totalTokens = totalPromptTokens + totalCompletionTokens.
C14_CumulativeIdentity ==
    nCompress = 0 =>
        mon.totalTokens = mon.totalPromptTokens + mon.totalCompletionTokens

\* C14 amended: the identity holds after RecordUsage calls, with no
\* OnCompression so far, when every usage record given had
\* TotalTokens = PromptTokens + CompletionTokens.
C14_IdentityForConsistentRecords ==
    (nCompress = 0 /\ fedConsistent) =>
        mon.totalTokens = mon.totalPromptTokens + mon.totalCompletionTokens

C14_Witness ==
    /\ nCompress = 0
    /\ fedConsistent
    /\ Len(recLog) >= 2
    /\ mon.totalCompletionTokens > 0
    /\ \A t \in Threads : thr[t].pc = "idle"

ClampZero(n) == IF n < 0 THEN 0 ELSE n

\* the step in which goroutine t returns from method pc
Returns(t, pc) == thr[t].pc = pc /\ thr'[t].pc = "idle"

C16_AtomicTestAndClear ==
    /\ raised = drainTrue + (IF mon.pendingUpdate THEN 1 ELSE 0)
    /\ \A t \in Threads : thr[t].pc = "DrainClear" => mon.pendingUpdate /\ mu.writer = t
    /\ \A t \in Threads : thr[t].pc = "DrainTest" => mu.writer = t

\* the flag was raised, drained once, and raised again while another
\* goroutine is waiting to drain
C16_Witness ==
    /\ raised = 2
    /\ drainTrue = 1
    /\ mon.pendingUpdate
    /\ \E t \in Threads : thr[t].pc = "DrainClear"

\* the records given to RecordUsage, numbered as recorded
C17_Numbered == [i \in 1..Len(recLog) |-> [recLog[i] EXCEPT !.TurnNumber = i]]

\* C17: the usage history holds at most maxUsageHistory records; it is the
\* most recent records in recording order, their turn numbers go up by one,
\* and the last record's turn number is turnCount.
C17_BoundedRecentHistory ==
    LET h == mon.usageHistory
        n == Len(recLog)
    IN /\ Len(h) <= maxUsageHistory
       /\ Len(h) = IF n < maxUsageHistory THEN n ELSE maxUsageHistory
       /\ \A i \in 1..Len(h) : h[i] = C17_Numbered[n - Len(h) + i]
       /\ \A i \in 1..(Len(h) - 1) : h[i + 1].TurnNumber = h[i].TurnNumber + 1
       /\ h # <<>> => h[Len(h)].TurnNumber = mon.turnCount

\* more records than the cap were recorded and the oldest was trimmed
C17_Witness ==
    /\ Len(recLog) > maxUsageHistory
    /\ Len(mon.usageHistory) = maxUsageHistory
    /\ mon.usageHistory[1].TurnNumber = Len(recLog) - maxUsageHistory + 1

\* C18: with maxTokens > 0, IsWarning returns true iff totalTokens is at
\* least 0.8 x maxTokens and IsCritical iff it is at least 0.95 x maxTokens;
\* with maxTokens <= 0 both return false.
C18_Thresholds ==
    [][\A t \in Threads :
          /\ Returns(t, "IsWarning") =>
               thr'[t].ret = BoolRet(mon.maxTokens > 0 /\ 5 * mon.totalTokens >= 4 * mon.maxTokens)
          /\ Returns(t, "IsCritical") =>
               thr'[t].ret = BoolRet(mon.maxTokens > 0 /\ 20 * mon.totalTokens >= 19 * mon.maxTokens)]_vars

\* a query returned true with the usage exactly at the warning threshold
C18_Witness ==
    /\ raised = 0
    /\ mon.maxTokens > 0
    /\ 5 * mon.totalTokens = 4 * mon.maxTokens
    /\ \E t \in Threads : thr[t].ret = "true"
    /\ \A t \in Threads : thr[t].pc = "idle"

\* C19 as claimed: after Reset the monitor is in the state of a newly
\* constructed monitor with the same maxTokens: counters and turnCount 0,
\* empty history, no compression update pending.
C19_ResetRestoresNewMonitor ==
    [][\A t \in Threads : Returns(t, "Reset") => mon' = NewMonitor(mon.maxTokens)]_vars

----------------------------------------------------------------------------
(* Claims on the compressor and the Compression hook (CompressSpec) *)

C11_Before == Count(cmpIn.msgs)

\* the compressor's answer to the call the hook makes
C11_Answer == LLMCompressIfNeeded(compressor, llm, cmpIn.msgs, C11_Before)

\* the hook performs a compression: it has a list of more than one message
\* and the compressor reports didCompress
C11_Performs == Len(cmpIn.msgs) > 1 /\ C11_Answer.didCompress

C11_PatchAndNotice(r) ==
    /\ r.err.isNil
    /\ r.result = MessagesPatch(MessageOps(
                      <<RemoveAllMessages, AppendMessages(C11_Answer.compressed)>>))
    /\ r.notified = << [before |-> C11_Before, after |-> Count(C11_Answer.compressed)] >>

C12_Conversation(msgs) == SelectSeq(msgs, LAMBDA m : m.role # "system")

\* the conditions under which the claim says a compression happens
C12_Conditions ==
    /\ compressor.contextWindow > 0
    /\ cmpIn.currentTokens > 0
    /\ cmpIn.currentTokens * 100 >= compressor.threshold * compressor.contextWindow
    /\ Len(C12_Conversation(cmpIn.msgs)) > compressor.keepRecentTurns * 2
    /\ llm.kind = "text"
    /\ llm.text \notin {"", "  "}

\* C12: CompressIfNeeded never returns an error; didCompress is true exactly
\* when the returned list is a rebuilt list that differs from the input,
\* which is the case exactly under the conditions (window and tokens
\* positive, ratio at or above the threshold, more than keepRecentTurns x 2
\* conversation messages, a non-empty summary); otherwise the input list is
\* returned unchanged with didCompress false.
C12_NeverFailsReportsRebuild ==
    cmpOut.called =>
        LET r == cmpOut.ret
        IN /\ ~r.err
           /\ r.didCompress <=> (r.rebuilt /\ r.compressed # cmpIn.msgs)
           /\ r.didCompress <=> C12_Conditions
           /\ ~r.didCompress => r.compressed = cmpIn.msgs

\* a compression was reported for a rebuilt list as long as the input
C12_Witness ==
    /\ cmpOut.called
    /\ cmpOut.ret.didCompress
    /\ Len(cmpOut.ret.compressed) = Len(cmpIn.msgs)

C13_IsSummary(m) == m.role = "system" /\ IsSummaryMessage(m.content)

C13_Last(q, n) == IF n >= Len(q) THEN q ELSE SubSeq(q, Len(q) - n + 1, Len(q))

----------------------------------------------------------------------------
(* Claim on the ArtifactRecord hook (HookSpec) *)

\* the RecordCompleted calls the claim expects of the k-th hook that ran
C20_CallsOf(k) ==
    LET mw == items[postOut.ran[k]]
    IN IF mw.kind = "artifact" /\ postIn.err.isNil
       THEN [j \in 1..Len(mw.outputs) |->
                [stepID |-> WrappedStep.id, title |-> WrappedStep.title,
                 outputPath |-> mw.outputs[j]]]
       ELSE <<>>

RECURSIVE C20_CallsUpTo(_)
C20_CallsUpTo(k) == IF k = 0 THEN <<>> ELSE C20_CallsUpTo(k - 1) \o C20_CallsOf(k)

\* C20: the ArtifactRecord post hook, given no node error, calls
\* RecordCompleted(stepID, title, path) once for every output path of the
\* step, in list order; given a node error it calls the tracker zero times
\* and returns that error; for a step without outputs the middleware
\* contributes no post hook.
C20_RecordsOutputsOnSuccess ==
    /\ \A i \in 1..Len(items) :
          (items[i].kind = "artifact" /\ items[i].outputs = <<>>) =>
              \A k \in 1..Len(PostCallbacks(items)) : PostCallbacks(items)[k] # i
    /\ hphase = "post" =>
          /\ postOut.recorded = C20_CallsUpTo(Len(postOut.ran))
          /\ \A k \in 1..Len(postOut.ran) :
                items[postOut.ran[k]].kind = "artifact" =>
                    /\ postOut.rets[k] = "nil"
                    /\ postOut.errs[k] = postIn.err

\* the hook recorded the two outputs of the step after a node that succeeded
C20_Witness ==
    /\ hphase = "post"
    /\ postIn.err.isNil
    /\ \E k \in 1..Len(postOut.ran) :
          /\ items[postOut.ran[k]].kind = "artifact"
          /\ Len(items[postOut.ran[k]].outputs) = 2
    /\ Len(postOut.recorded) >= 2
    /\ postOut.recorded[1].outputPath = "out1"
    /\ postOut.recorded[2].outputPath = "out2"

----------------------------------------------------------------------------
(* claims about artifact recording in a flow (FlowSpec) *)

\* C21: in a graph or chain flow an artifact of step s is recorded only
\* after s's confirm node has completed without error: no artifact of s is
\* held while the run is suspended at s:confirm, and none before s's LLM
\* node and, when it ran, s's tools node have finished.
C21_RecordedOnlyAfterConfirm ==
    /\ \A s \in artifacts :
          /\ builder \in {"graph", "chain"}
          /\ confirmNodeID(s) \in finished
          /\ LLMNodeID(s) \in finished
    /\ phase = "suspended" => cur.step \notin artifacts
    /\ \A s \in StepIds :
          (cur.step = s /\ cur.kind \in {"llm", "tools"}) => s \notin artifacts

\* a run that was suspended at s1:confirm has been resumed and holds the
\* artifact of s1, whose tools node ran
C21_Witness ==
    /\ steps["s1"].advance \in {AdvanceConfirm, AdvanceBlock}
    /\ steps["s1"].tools
    /\ toolsNodeID("s1") \in finished
    /\ cur = confirmNodeID("s1")
    /\ phase = "ran"
    /\ "s1" \in artifacts

----------------------------------------------------------------------------
(* artifact tracker : the file system, FileTracker over a heap of structs *)

\* bound on the RecordCompleted calls of a run
MaxCalls == 2

ArtifactInfo(stepID, title, filePath, status, lineCount, createdAt) ==
    [StepID |-> stepID, Title |-> title, FilePath |-> filePath, Status |-> status,
     Summary |-> "", LineCount |-> lineCount, CreatedAt |-> createdAt]

\* what the file system holds at a path
Missing == [exists |-> FALSE, isDir |-> FALSE, readable |-> FALSE, data |-> <<>>, modTime |-> 0]
Directory == [exists |-> TRUE, isDir |-> TRUE, readable |-> FALSE, data |-> <<>>, modTime |-> 1]
RegularFile(data, modTime, readable) ==
    [exists |-> TRUE, isDir |-> FALSE, readable |-> readable, data |-> data, modTime |-> modTime]

\* FileSystem.Stat and FileSystem.ReadFile
Stat(fs, path) ==
    IF path \in DOMAIN fs /\ fs[path].exists THEN [err |-> FALSE, info |-> fs[path]]
    ELSE [err |-> TRUE, info |-> Missing]
ReadFile(fs, path) ==
    IF path \in DOMAIN fs /\ fs[path].exists /\ ~fs[path].isDir /\ fs[path].readable
    THEN [err |-> FALSE, data |-> fs[path].data]
    ELSE [err |-> TRUE, data |-> <<>>]

\* FileTracker.countLines: newline bytes, plus one for a last line without one
countLines(fs, path) ==
    LET r == ReadFile(fs, path)
        n == Len(r.data)
    IN IF r.err THEN 0
       ELSE Cardinality({i \in 1..n : r.data[i] = "\n"})
            + (IF n > 0 /\ r.data[n] # "\n" THEN 1 ELSE 0)

\* the result of a tracker method: what it returns and the heap it leaves
TrackerResult(ret, h) == [ret |-> ret, heap |-> h]

\* RecordCompleted keeping the record a step already has
RecordCompleted_KeepsFirst(h, fs, stepID, title, outputPath) ==
    LET st == Stat(fs, outputPath)
        a == h.next
    IN IF st.err \/ st.info.isDir THEN TrackerResult(FALSE, h)
       ELSE TrackerResult(TRUE,
               [structs |-> (a :> ArtifactInfo(stepID, title, outputPath, "completed",
                                               countLines(fs, outputPath), st.info.modTime))
                            @@ h.structs,
                maps |-> [h.maps EXCEPT ![DataMap] = @ @@ (stepID :> a)],
                next |-> a + 1])

\* FileTracker.RecordCompleted
RecordCompleted(h, fs, stepID, title, outputPath) ==
    LET st == Stat(fs, outputPath)
        a == h.next
    IN IF st.err \/ st.info.isDir THEN TrackerResult(FALSE, h)
       ELSE TrackerResult(TRUE,
               [structs |-> (a :> ArtifactInfo(stepID, title, outputPath, "completed",
                                               countLines(fs, outputPath), st.info.modTime))
                            @@ h.structs,
                maps |-> [h.maps EXCEPT ![DataMap] = (stepID :> a) @@ @],
                next |-> a + 1])

\* GetArtifact handing out the pointer the tracker holds
GetArtifact_ReturnsReference(h, stepID) ==
    IF stepID \in DOMAIN h.maps[DataMap] THEN TrackerResult(h.maps[DataMap][stepID], h)
    ELSE TrackerResult(NilPtr, h)

\* FileTracker.GetArtifact: a pointer to a copy of the struct, or nil
GetArtifact(h, stepID) ==
    IF stepID \in DOMAIN h.maps[DataMap]
    THEN LET a == h.next
         IN TrackerResult(a, [h EXCEPT !.structs = (a :> h.structs[h.maps[DataMap][stepID]]) @@ @,
                                       !.next = a + 1])
    ELSE TrackerResult(NilPtr, h)

\* FileTracker.GetAll: a new map holding a pointer to a copy of every struct
GetAll(h) ==
    LET m == h.next
        keys == DOMAIN h.maps[DataMap]
        addr(k) == m + StepIndex(k)
    IN TrackerResult(m,
          [structs |-> [a \in {addr(k) : k \in keys} |->
                           h.structs[h.maps[DataMap][CHOOSE k \in keys : addr(k) = a]]]
                       @@ h.structs,
           maps |-> (m :> [k \in keys |-> addr(k)]) @@ h.maps,
           next |-> m + Len(StepOrder) + 1])

\* what a caller reads through a value it holds
Value(h, hd) ==
    CASE hd.kind = "ptr" /\ hd.ref # NilPtr -> h.structs[hd.ref]
      [] hd.kind = "map" -> [k \in DOMAIN h.maps[hd.ref] |-> h.structs[h.maps[hd.ref][k]]]
      [] OTHER -> "nil"

Held(kind, ref) == [kind |-> kind, ref |-> ref, written |-> FALSE]

\* a caller's writes through a value it holds: a field of a struct, and
\* deleting or adding an entry of a map
SetTitle(h, a, title) == [h EXCEPT !.structs[a].Title = title]
DeleteEntry(h, m, k) == [h EXCEPT !.maps[m] = [j \in DOMAIN @ \ {k} |-> @[j]]]
AddEntry(h, m, k, info) ==
    [structs |-> (h.next :> info) @@ h.structs,
     maps |-> [h.maps EXCEPT ![m] = (k :> h.next) @@ @],
     next |-> h.next + 1]

\* the garbage collector: structs and maps neither the tracker nor the
\* caller can reach are dropped, the live addresses renumbered in order
Collect(h, hd) ==
    LET liveMaps == {DataMap} \cup (IF hd.kind = "map" THEN {hd.ref} ELSE {})
        liveStructs ==
            UNION {{h.maps[m][k] : k \in DOMAIN h.maps[m]} : m \in liveMaps}
            \cup (IF hd.kind = "ptr" /\ hd.ref # NilPtr THEN {hd.ref} ELSE {})
        live == liveMaps \cup liveStructs
        new(a) == Cardinality({b \in live : b <= a})
        old(n) == CHOOSE b \in live : new(b) = n
    IN [heap |-> [structs |-> [n \in {new(a) : a \in liveStructs} |-> h.structs[old(n)]],
                  maps |-> [n \in {new(m) : m \in liveMaps} |->
                               [k \in DOMAIN h.maps[old(n)] |-> new(h.maps[old(n)][k])]],
                  next |-> Cardinality(live) + 1],
        held |-> [hd EXCEPT !.ref = IF @ = NilPtr THEN NilPtr ELSE new(@)]]

----------------------------------------------------------------------------
(* tracker run : calls of the tracker, the caller's writes, the files changing *)

Paths == {"docs/a.md", "docs"}
Titles == {"Design"}

\* what docs/a.md is over time: written, rewritten, made unreadable, removed
FileEntries ==
    <<RegularFile(<<"x", "\n">>, 1, TRUE),
      RegularFile(<<"x", "\n", "y">>, 2, TRUE),
      RegularFile(<<"x", "\n">>, 2, FALSE),
      Missing>>

FileSystem(i) == ("docs/a.md" :> FileEntries[i]) @@ ("docs" :> Directory)
FileSystems == {FileSystem(i) : i \in 1..Len(FileEntries)}

TrackerInit ==
    /\ fsys \in FileSystems
    /\ heap = EmptyHeap
    /\ held = NoHeld
    /\ log = <<>>
    /\ lastOp = "new"
    /\ FlowIdle
    /\ ClsIdle
    /\ HookIdle
    /\ MonIdle
    /\ CmpIdle
    /\ BldIdle
    /\ RestIdle

\* a step's post hook (or any caller) calls RecordCompleted
CallRecordCompleted ==
    /\ lastOp # "idle"
    /\ Len(log) < MaxCalls
    /\ \E stepID \in StepIds, title \in Titles, outputPath \in Paths :
        LET r == RecordCompleted(heap, fsys, stepID, title, outputPath)
            c == Collect(r.heap, held)
        IN /\ heap' = c.heap
           /\ held' = c.held
           /\ log' = Append(log, [stepID |-> stepID, title |-> title,
                                  outputPath |-> outputPath, ret |-> r.ret,
                                  stat |-> Stat(fsys, outputPath),
                                  lines |-> countLines(fsys, outputPath)])
    /\ lastOp' = "record"
    /\ UNCHANGED <<fsys, nonTrkVars>>

CallGetArtifact ==
    /\ lastOp # "idle"
    /\ \E stepID \in StepIds :
        LET r == GetArtifact(heap, stepID)
            c == Collect(r.heap, Held("ptr", r.ret))
        IN heap' = c.heap /\ held' = c.held
    /\ lastOp' = "get"
    /\ UNCHANGED <<fsys, log, nonTrkVars>>

CallGetAll ==
    /\ lastOp # "idle"
    /\ LET r == GetAll(heap)
           c == Collect(r.heap, Held("map", r.ret))
       IN heap' = c.heap /\ held' = c.held
    /\ lastOp' = "getall"
    /\ UNCHANGED <<fsys, log, nonTrkVars>>

\* the caller changes a field of the struct it holds
MutateStruct ==
    /\ held.kind = "ptr"
    /\ held.ref # NilPtr
    /\ ~held.written
    /\ heap' = SetTitle(heap, held.ref, "modified")
    /\ held' = [held EXCEPT !.written = TRUE]
    /\ lastOp' = "mutate"
    /\ UNCHANGED <<fsys, log, nonTrkVars>>

\* the caller changes the map it holds: a field of an entry, an entry
\* deleted, an entry added
MutateMap ==
    /\ held.kind = "map"
    /\ ~held.written
    /\ \E k \in StepIds :
        LET m == heap.maps[held.ref]
            c == IF k \in DOMAIN m
                 THEN {SetTitle(heap, m[k], "modified"), DeleteEntry(heap, held.ref, k)}
                 ELSE {AddEntry(heap, held.ref, k,
                                ArtifactInfo(k, "forged", "docs/a.md", "pending", 0, 0))}
        IN \E h \in c :
            /\ heap' = Collect(h, held).heap
            /\ held' = [Collect(h, held).held EXCEPT !.written = TRUE]
    /\ lastOp' = "mutate"
    /\ UNCHANGED <<fsys, log, nonTrkVars>>

\* docs/a.md moves on to a later content
Touch ==
    /\ lastOp # "idle"
    /\ \E i, j \in 1..Len(FileEntries) :
          i < j /\ fsys = FileSystem(i) /\ fsys' = FileSystem(j)
    /\ lastOp' = "touch"
    /\ UNCHANGED <<heap, held, log, nonTrkVars>>

TrackerNext ==
    CallRecordCompleted \/ CallGetArtifact \/ CallGetAll \/ MutateStruct \/ MutateMap \/ Touch

TrackerSpec == TrackerInit /\ [][TrackerNext]_vars

----------------------------------------------------------------------------
(* claims about the artifact tracker (TrackerSpec) *)

\* what GetArtifact(s) and GetAll() give a caller to read
ReadArtifact(h, s) ==
    LET r == GetArtifact(h, s) IN Value(r.heap, Held("ptr", r.ret))
ReadAll(h) ==
    LET r == GetAll(h) IN Value(r.heap, Held("map", r.ret))

C22_Succeeded(s) == {i \in 1..Len(log) : log[i].stepID = s /\ log[i].ret}
C22_Last(s) == log[CHOOSE i \in C22_Succeeded(s) : \A j \in C22_Succeeded(s) : j <= i]

\* C22: after any sequence of RecordCompleted calls GetArtifact(s) is nil iff
\* no call for s has succeeded, and otherwise is the record (completed, path,
\* line count, modification time) of the most recent successful call for s;
\* a call whose path is missing or a directory returns false and changes
\* nothing, an earlier record of the step included.
C22_LastWriteWins ==
    /\ \A i \in 1..Len(log) :
          log[i].ret = (~log[i].stat.err /\ ~log[i].stat.info.isDir)
    /\ \A s \in StepIds :
          ReadArtifact(heap, s) =
              IF C22_Succeeded(s) = {} THEN "nil"
              ELSE ArtifactInfo(s, C22_Last(s).title, C22_Last(s).outputPath, "completed",
                                C22_Last(s).lines, C22_Last(s).stat.info.modTime)

\* two calls for s1 succeeded on different contents of the file
C22_Witness ==
    /\ Len(log) = 2
    /\ log[1].stepID = "s1" /\ log[1].ret /\ log[1].lines = 1
    /\ log[2].stepID = "s1" /\ log[2].ret /\ log[2].lines = 2
    /\ ReadArtifact(heap, "s1").LineCount = 2

\* a successful call for s1 was followed by one on a directory
C22_WitnessFailedCall ==
    /\ Len(log) = 2
    /\ log[1].stepID = "s1" /\ log[1].ret
    /\ log[2].stepID = "s1" /\ ~log[2].ret /\ log[2].outputPath = "docs"

\* C23: GetAll and GetArtifact return copies: nothing a caller does to a
\* returned ArtifactInfo or map changes what a later GetAll or GetArtifact
\* returns, and a later RecordCompleted does not change a value returned
\* earlier.
C23_ReturnsCopies ==
    [][/\ lastOp' = "mutate" =>
            /\ ReadAll(heap') = ReadAll(heap)
            /\ \A s \in StepIds : ReadArtifact(heap', s) = ReadArtifact(heap, s)
       /\ lastOp' = "record" => Value(heap', held') = Value(heap, held)]_vars

\* the caller changed a struct it got from GetAll, while the tracker holds
\* a record of that step
C23_Witness ==
    /\ lastOp = "mutate"
    /\ held.kind = "map"
    /\ "s1" \in DOMAIN heap.maps[held.ref]
    /\ heap.structs[heap.maps[held.ref]["s1"]].Title = "modified"
    /\ "s1" \in DOMAIN heap.maps[DataMap]

\* a record was overwritten while the caller held the earlier one
C23_WitnessOverwrite ==
    /\ lastOp = "record"
    /\ held.kind = "ptr" /\ held.ref # NilPtr
    /\ heap.structs[held.ref].StepID = "s1"
    /\ ReadArtifact(heap, "s1") # heap.structs[held.ref]

----------------------------------------------------------------------------
(* flow construction : the engine's StateGraph, GraphBuilder and ChainBuilder *)

\* bound on the length of the step list given to Build
MaxSteps == 2

\* A step as the builders read it.  Tools names the tool set of the step:
\* "none", "eda" (present in FlowOptions.ToolSets) or "gone" (absent).
StepDefinition(step, next, fallback, tools) ==
    [Step |-> step, Next |-> next, Fallback |-> fallback, Tools |-> tools]

resolveToolSets(names, allowMissing) ==
    CASE names = "none" -> [err |-> "", sets |-> {}]
      [] names = "eda" -> [err |-> "", sets |-> {"eda"}]
      [] OTHER -> IF allowMissing THEN [err |-> "", sets |-> {}]
                  ELSE [err |-> "toolset not found", sets |-> {}]

\* graph.NewStateGraph and the calls the builders make on it.  The graph keeps
\* what was asked for: the nodes registered (again: ids registered more than
\* once), the edges in the order added, the conditional edge of a node, the
\* entry and the finish point.
NewStateGraph == NoGraph
AddNode(sg, id) ==
    [sg EXCEPT !.nodes = @ \cup {id},
               !.again = IF id \in sg.nodes THEN @ \cup {id} ELSE @]
AddEdge(sg, from, to) == [sg EXCEPT !.edges = Append(@, <<from, to>>)]
AddToolsConditionalEdges(sg, from, toolsNode, fallbackNode) ==
    [sg EXCEPT !.cond = (from :> [router |-> "tools", fallback |-> NoFallback,
                                  pathMap |-> ("tools" :> toolsNode) @@ ("next" :> fallbackNode)])
                        @@ @]
AddConditionalEdges(sg, from, fallback, pathMap) ==
    [sg EXCEPT !.cond = (from :> [router |-> "fallback", fallback |-> fallback,
                                  pathMap |-> pathMap]) @@ @]
SetEntryPoint(sg, id) == [sg EXCEPT !.entry = id]
SetFinishPoint(sg, id) == [sg EXCEPT !.finish = id]

\* the node ids a graph refers to
Endpoints(sg) ==
    ({sg.entry, sg.finish}
     \cup {sg.edges[i][1] : i \in 1..Len(sg.edges)}
     \cup {sg.edges[i][2] : i \in 1..Len(sg.edges)}
     \cup DOMAIN sg.cond
     \cup UNION {{sg.cond[n].pathMap[l] : l \in DOMAIN sg.cond[n].pathMap} : n \in DOMAIN sg.cond})
    \ {End}

\* StateGraph.Compile: a graph whose nodes were registered once and whose
\* edges refer to registered nodes compiles; what the engine does with any
\* other graph is not fixed by this repository: a strict engine rejects it, a
\* lenient one returns it.
Compile(sg, strict) ==
    IF strict /\ (sg.again # {} \/ ~(Endpoints(sg) \subseteq sg.nodes))
    THEN BuildResult("invalid graph", NoGraph)
    ELSE BuildResult("", sg)

\* GraphBuilder.addEdges
addEdges(sg, step, stepID, toolSets) ==
    LET nextID == nextStepID(step.Next)
        advanceTarget == confirmNodeID(stepID)
        sg1 == AddEdge(sg, advanceTarget, nextID)
    IN IF toolSets # {}
       THEN AddConditionalEdges(
               AddToolsConditionalEdges(sg1, LLMNodeID(stepID), toolsNodeID(stepID), advanceTarget),
               toolsNodeID(stepID), step.Fallback, PathMap(step.Fallback, LLMNodeID(stepID)))
       ELSE IF DOMAIN step.Fallback # {}
       THEN AddConditionalEdges(sg1, LLMNodeID(stepID), step.Fallback,
                                PathMap(step.Fallback, advanceTarget))
       ELSE AddEdge(sg1, LLMNodeID(stepID), advanceTarget)

\* GraphBuilder.setEntryAndFinish
setEntryAndFinish(sg, stepList) ==
    LET named == {i \in 1..Len(stepList) : stepList[i].Step # ""}
        entryID == IF named = {} THEN stepList[1].Step
                   ELSE stepList[CHOOSE i \in named : \A j \in named : i <= j].Step
    IN SetFinishPoint(SetEntryPoint(sg, LLMNodeID(entryID)),
                      confirmNodeID(stepList[Len(stepList)].Step))

\* the three nodes of a step: the LLM node, the confirm node, the tools node
AddStepNodes(sg, stepID, toolSets) ==
    LET sg2 == AddNode(AddNode(sg, LLMNodeID(stepID)), confirmNodeID(stepID))
    IN IF toolSets # {} THEN AddNode(sg2, toolsNodeID(stepID)) ELSE sg2

\* GraphBuilder.Build, phase 1, from step i on; acc holds the error, the
\* graph, the ids seen and the tool sets resolved per id
RECURSIVE GraphAddNodes(_, _, _, _)
GraphAddNodes(stepList, allowMissing, i, acc) ==
    IF i > Len(stepList) THEN acc
    ELSE LET stepID == TrimSpace(stepList[i].Step)
             ts == resolveToolSets(stepList[i].Tools, allowMissing)
         IN IF stepID = "" THEN [acc EXCEPT !.err = "missing step ID"]
            ELSE IF stepID \in acc.stepIDs THEN [acc EXCEPT !.err = "duplicate step"]
            ELSE IF ts.err # "" THEN [acc EXCEPT !.err = ts.err]
            ELSE GraphAddNodes(stepList, allowMissing, i + 1,
                    [acc EXCEPT !.stepIDs = @ \cup {stepID},
                                !.stepTools = (stepID :> ts.sets) @@ @,
                                !.sg = AddStepNodes(@, stepID, ts.sets)])

\* GraphBuilder.Build, phase 2, from step i on
RECURSIVE GraphAddEdges(_, _, _, _)
GraphAddEdges(stepList, stepTools, i, sg) ==
    IF i > Len(stepList) THEN sg
    ELSE LET stepID == stepList[i].Step
             toolSets == IF stepID \in DOMAIN stepTools THEN stepTools[stepID] ELSE {}
         IN GraphAddEdges(stepList, stepTools, i + 1, addEdges(sg, stepList[i], stepID, toolSets))

NoNodes == [err |-> "", sg |-> NewStateGraph, stepIDs |-> {}, stepTools |-> <<>>]

\* GraphBuilder.Build
GraphBuild(stepList, allowMissing, strict) ==
    IF Len(stepList) = 0 THEN BuildResult("no stepList to build graph", NoGraph)
    ELSE LET p1 == GraphAddNodes(stepList, allowMissing, 1, NoNodes)
         IN IF p1.err # "" THEN BuildResult(p1.err, NoGraph)
            ELSE Compile(setEntryAndFinish(GraphAddEdges(stepList, p1.stepTools, 1, p1.sg), stepList),
                         strict)

\* ChainBuilder.Build, phase 1, from step i on
RECURSIVE ChainAddNodes(_, _, _, _)
ChainAddNodes(stepList, allowMissing, i, acc) ==
    IF i > Len(stepList) THEN acc
    ELSE LET stepID == TrimSpace(stepList[i].Step)
             ts == resolveToolSets(stepList[i].Tools, allowMissing)
         IN IF stepID = "" THEN [acc EXCEPT !.err = "missing step ID"]
            ELSE IF ts.err # "" THEN [acc EXCEPT !.err = ts.err]
            ELSE ChainAddNodes(stepList, allowMissing, i + 1,
                    [acc EXCEPT !.sg = AddStepNodes(@, stepID, ts.sets)])

\* the chain's edges following each step's next
RECURSIVE ChainAddEdges_FollowsNext(_, _, _, _)
ChainAddEdges_FollowsNext(stepList, allowMissing, i, sg) ==
    IF i > Len(stepList) THEN sg
    ELSE LET stepID == stepList[i].Step
             cid == confirmNodeID(stepID)
             sg1 == AddEdge(sg, LLMNodeID(stepID), cid)
         IN ChainAddEdges_FollowsNext(stepList, allowMissing, i + 1,
                IF stepList[i].Next # "" THEN AddEdge(sg1, cid, LLMNodeID(stepList[i].Next))
                ELSE sg1)

\* ChainBuilder.Build, phase 2, from step i on
RECURSIVE ChainAddEdges(_, _, _, _)
ChainAddEdges(stepList, allowMissing, i, sg) ==
    IF i > Len(stepList) THEN sg
    ELSE LET stepID == stepList[i].Step
             cid == confirmNodeID(stepID)
             toolSets == resolveToolSets(stepList[i].Tools, allowMissing).sets
             sg1 == IF toolSets # {}
                    THEN AddConditionalEdges(
                            AddToolsConditionalEdges(sg, LLMNodeID(stepID), toolsNodeID(stepID), cid),
                            toolsNodeID(stepID), NoFallback, PathMap(NoFallback, LLMNodeID(stepID)))
                    ELSE AddEdge(sg, LLMNodeID(stepID), cid)
         IN ChainAddEdges(stepList, allowMissing, i + 1,
                IF i < Len(stepList) THEN AddEdge(sg1, cid, LLMNodeID(stepList[i + 1].Step))
                ELSE sg1)

\* ChainBuilder.Build
ChainBuild(stepList, allowMissing, strict) ==
    IF Len(stepList) = 0 THEN BuildResult("no stepList to build chain", NoGraph)
    ELSE LET p1 == ChainAddNodes(stepList, allowMissing, 1, NoNodes)
         IN IF p1.err # "" THEN BuildResult(p1.err, NoGraph)
            ELSE Compile(SetFinishPoint(
                            SetEntryPoint(ChainAddEdges(stepList, allowMissing, 1, p1.sg),
                                          LLMNodeID(stepList[1].Step)),
                            confirmNodeID(stepList[Len(stepList)].Step)),
                         strict)

----------------------------------------------------------------------------
(* construction run : Build called on step lists *)

StepDefs ==
    {StepDefinition("s1", next, v[1], v[2]) :
        next \in {"", "s2"},
        v \in {<<NoFallback, "none">>, <<NoFallback, "eda">>,
               <<("default" :> "s2"), "none">>, <<("timeout" :> ""), "eda">>}}
    \cup {StepDefinition("s2", "", NoFallback, "none"),
          StepDefinition("s2", "s1", ("default" :> "s1"), "eda"),
          StepDefinition(" s1", "s2", NoFallback, "eda"),
          StepDefinition(" ", "", NoFallback, "none"),
          StepDefinition("", "s2", NoFallback, "none"),
          StepDefinition("s2", "", NoFallback, "gone")}

\* the lists of at most n elements of S
RECURSIVE ListsOver(_, _)
ListsOver(S, n) ==
    IF n = 0 THEN {<<>>}
    ELSE ListsOver(S, n - 1) \cup
         {Append(l, s) : l \in {k \in ListsOver(S, n - 1) : Len(k) = n - 1}, s \in S}

BuildInit ==
    /\ bldIn \in [steps : ListsOver(StepDefs, MaxSteps), AllowMissing : BOOLEAN, strict : BOOLEAN]
    /\ bldOut = [builder |-> "none", ret |-> BuildResult("", NoGraph)]
    /\ FlowIdle
    /\ ClsIdle
    /\ HookIdle
    /\ MonIdle
    /\ CmpIdle
    /\ TrkIdle
    /\ RestIdle

CallGraphBuild ==
    /\ bldOut.builder # "graph"
    /\ bldOut' = [builder |-> "graph",
                  ret |-> GraphBuild(bldIn.steps, bldIn.AllowMissing, bldIn.strict)]
    /\ UNCHANGED <<bldIn, nonBldVars>>

CallChainBuild ==
    /\ bldOut.builder # "chain"
    /\ bldOut' = [builder |-> "chain",
                  ret |-> ChainBuild(bldIn.steps, bldIn.AllowMissing, bldIn.strict)]
    /\ UNCHANGED <<bldIn, nonBldVars>>

BuildNext == CallGraphBuild \/ CallChainBuild

BuildSpec == BuildInit /\ [][BuildNext]_vars

----------------------------------------------------------------------------
(* claims about flow construction (BuildSpec) *)

\* the tool sets Build resolves for step i of the list given
ResolvedToolSets(i) == resolveToolSets(bldIn.steps[i].Tools, bldIn.AllowMissing)

\* the ids of the list are non-blank, without surrounding space and distinct,
\* and every tool set named resolves
WellFormedList ==
    /\ Len(bldIn.steps) > 0
    /\ \A i \in 1..Len(bldIn.steps) :
          /\ bldIn.steps[i].Step # ""
          /\ TrimSpace(bldIn.steps[i].Step) = bldIn.steps[i].Step
          /\ ResolvedToolSets(i).err = ""
          /\ \A j \in 1..Len(bldIn.steps) :
                i # j => bldIn.steps[i].Step # bldIn.steps[j].Step

\* step_1 -> step_1:confirm -> step_2 -> ... -> step_n:confirm, as a list of edges
C24_Edges(l) ==
    [k \in 1..(2 * Len(l) - 1) |->
        IF k % 2 = 1
        THEN <<LLMNodeID(l[(k + 1) \div 2].Step), confirmNodeID(l[(k + 1) \div 2].Step)>>
        ELSE <<confirmNodeID(l[k \div 2].Step), LLMNodeID(l[k \div 2 + 1].Step)>>]

C25_EdgesFrom(g, n) == {k \in 1..Len(g.edges) : g.edges[k][1] = n}

\* the wiring of step i of the list in graph g
C25_Wired(g, i) ==
    LET step == bldIn.steps[i]
        s == step.Step
    IN /\ Cardinality(C25_EdgesFrom(g, confirmNodeID(s))) = 1
       /\ \A k \in C25_EdgesFrom(g, confirmNodeID(s)) : g.edges[k][2] = nextStepID(step.Next)
       /\ CASE ResolvedToolSets(i).sets # {} ->
                 /\ LLMNodeID(s) \in DOMAIN g.cond
                 /\ g.cond[LLMNodeID(s)].router = "tools"
                 /\ g.cond[LLMNodeID(s)].pathMap =
                       ("tools" :> toolsNodeID(s)) @@ ("next" :> confirmNodeID(s))
                 /\ toolsNodeID(s) \in DOMAIN g.cond
                 /\ g.cond[toolsNodeID(s)].router = "fallback"
                 /\ g.cond[toolsNodeID(s)].fallback = step.Fallback
                 /\ g.cond[toolsNodeID(s)].pathMap["success"] = LLMNodeID(s)
            [] ResolvedToolSets(i).sets = {} /\ DOMAIN step.Fallback # {} ->
                 /\ LLMNodeID(s) \in DOMAIN g.cond
                 /\ g.cond[LLMNodeID(s)].router = "fallback"
                 /\ g.cond[LLMNodeID(s)].fallback = step.Fallback
                 /\ g.cond[LLMNodeID(s)].pathMap["success"] = confirmNodeID(s)
            [] OTHER ->
                 /\ LLMNodeID(s) \notin DOMAIN g.cond
                 /\ \E k \in C25_EdgesFrom(g, LLMNodeID(s)) : g.edges[k][2] = confirmNodeID(s)

\* C25: in the graph GraphBuilder returns every step s has exactly one edge
\* out of s:confirm, to s.next or to the end sentinel; with resolved tool
\* sets s routes to s:tools or s:confirm and s:tools has the fallback router
\* with success -> s; without tool sets but with fallbacks s has the
\* fallback router with success -> s:confirm; otherwise s -> s:confirm.  The
\* entry point is the first step, the finish point the last confirm node.
C25_GraphWiring ==
    (bldOut.builder = "graph" /\ bldOut.ret.err = "") =>
        /\ \A i \in 1..Len(bldIn.steps) : C25_Wired(bldOut.ret.graph, i)
        /\ bldOut.ret.graph.entry = LLMNodeID(bldIn.steps[1].Step)
        /\ bldOut.ret.graph.finish = confirmNodeID(bldIn.steps[Len(bldIn.steps)].Step)

\* the empty list, a blank id, or one id given twice
C26_Rejected(l) ==
    \/ Len(l) = 0
    \/ \E i \in 1..Len(l) : TrimSpace(l[i].Step) = ""
    \/ \E i, j \in 1..Len(l) : i # j /\ l[i].Step = l[j].Step

\* C26: GraphBuilder.Build and ChainBuilder.Build return an error and no
\* graph whenever the step list is empty, some step's id is blank, or two
\* steps have the same id.
C26_InvalidListsRejected ==
    (bldOut.builder \in {"graph", "chain"} /\ C26_Rejected(bldIn.steps)) =>
        (bldOut.ret.err # "" /\ bldOut.ret.graph = NoGraph)

\* the node ids Build used for the steps when it wired the graph: the
\* sources of the edges and of the conditional edges, the entry and the finish
C38_WiredIds(g) ==
    {g.edges[k][1] : k \in 1..Len(g.edges)} \cup DOMAIN g.cond \cup {g.entry, g.finish}

\* C38: for every step list GraphBuilder or ChainBuilder accepts, every node
\* id used for a step as the source of an edge, as entry point or as finish
\* point is an id under which a node of that step was registered: the step
\* id is normalised in the same way, surrounding space included, when the
\* nodes are created and when edges, entry and finish are wired.
C38_SameNormalisation ==
    (bldOut.builder \in {"graph", "chain"} /\ bldOut.ret.err = "") =>
        C38_WiredIds(bldOut.ret.graph) \subseteq bldOut.ret.graph.nodes

----------------------------------------------------------------------------
(* reference validation : ValidateReferences *)

ValidationError(stepID, field, reference, message) ==
    [StepID |-> stepID, Field |-> field, Reference |-> reference, Message |-> message]

\* the set the loop over the steps fills: known[s.Frontmatter.Step] = true
KnownSteps(stepList) == {stepList[i].Step : i \in 1..Len(stepList)}

\* the check of next reporting only targets that do not exist
CheckNext_OnlyDangling(s, known) ==
    IF s.Next = "" THEN <<>>
    ELSE IF s.Next \notin known
         THEN <<ValidationError(s.Step, "next", s.Next, "target step does not exist")>>
         ELSE <<>>

\* ValidateReferences, the check of next of one step
CheckNext(s, known) ==
    IF s.Next = "" THEN <<>>
    ELSE (IF s.Next \notin known
          THEN <<ValidationError(s.Step, "next", s.Next, "target step does not exist")>>
          ELSE <<>>)
         \o (IF s.Next = s.Step
             THEN <<ValidationError(s.Step, "next", s.Next, "self-loop detected")>>
             ELSE <<>>)

\* ValidateReferences, the loop over the fallback map of one step; codes is
\* the order in which the map is iterated
RECURSIVE CheckFallback(_, _, _)
CheckFallback(s, known, codes) ==
    IF codes = <<>> THEN <<>>
    ELSE LET code == Head(codes)
             target == s.Fallback[code]
         IN (IF target = "" \/ target \in known THEN <<>>
             ELSE <<ValidationError(s.Step, "fallback." \o code, target,
                                    "target step does not exist")>>)
            \o CheckFallback(s, known, Tail(codes))

\* ValidateReferences; orders[i] is the iteration order of step i's fallback map
RECURSIVE ValidateFrom(_, _, _, _)
ValidateFrom(stepList, known, orders, i) ==
    IF i > Len(stepList) THEN <<>>
    ELSE CheckNext(stepList[i], known)
         \o CheckFallback(stepList[i], known, orders[i])
         \o ValidateFrom(stepList, known, orders, i + 1)

ValidateReferences(stepList, orders) ==
    ValidateFrom(stepList, KnownSteps(stepList), orders, 1)

\* the orders in which a map with the key set S can be iterated
Orderings(S) ==
    {q \in [1..Cardinality(S) -> S] : \A i, j \in 1..Cardinality(S) : i # j => q[i] # q[j]}

----------------------------------------------------------------------------
(* validation run *)

RefStepDefs ==
    {StepDefinition(id, next, fb, "none") :
        id \in {"s1", "s2"}, next \in {"", "s1", "s2", "s9"},
        fb \in {NoFallback, ("default" :> "s1"),
                ("default" :> "s9") @@ ("timeout" :> ""),
                ("compile_error" :> "s9") @@ ("default" :> "s8")}}

ValidateInit ==
    /\ valIn \in ListsOver(RefStepDefs, MaxSteps)
    /\ valOut = [called |-> FALSE, errs |-> <<>>]
    /\ FlowIdle
    /\ ClsIdle
    /\ HookIdle
    /\ MonIdle
    /\ CmpIdle
    /\ TrkIdle
    /\ BldIdle
    /\ LdrIdle
    /\ RndIdle
    /\ LateIdle

CallValidateReferences ==
    /\ \E orders \in [1..Len(valIn) -> UNION {Orderings(DOMAIN s.Fallback) : s \in RefStepDefs}] :
        /\ \A i \in 1..Len(valIn) : orders[i] \in Orderings(DOMAIN valIn[i].Fallback)
        /\ valOut' = [called |-> TRUE, errs |-> ValidateReferences(valIn, orders)]
    /\ UNCHANGED <<valIn, nonValVars>>

ValidateNext == CallValidateReferences

ValidateSpec == ValidateInit /\ [][ValidateNext]_vars

----------------------------------------------------------------------------
(* claims about reference validation (ValidateSpec) *)

C27_Count(errs, r) == Cardinality({k \in 1..Len(errs) : errs[k] = r})

C27_DanglingNext(i) ==
    valIn[i].Next # "" /\ valIn[i].Next \notin {valIn[j].Step : j \in 1..Len(valIn)}
C27_SelfLoop(i) == valIn[i].Next # "" /\ valIn[i].Next = valIn[i].Step
C27_DanglingFallback(i, c) ==
    /\ c \in DOMAIN valIn[i].Fallback
    /\ valIn[i].Fallback[c] # ""
    /\ valIn[i].Fallback[c] \notin {valIn[j].Step : j \in 1..Len(valIn)}

C27_Codes == UNION {DOMAIN s.Fallback : s \in RefStepDefs}

\* how many violations of the list call for the record r
C27_Expected(r) ==
    Cardinality({i \in 1..Len(valIn) :
        /\ C27_DanglingNext(i)
        /\ r = ValidationError(valIn[i].Step, "next", valIn[i].Next,
                               "target step does not exist")})
    + Cardinality({i \in 1..Len(valIn) :
        /\ C27_SelfLoop(i)
        /\ r.StepID = valIn[i].Step /\ r.Reference = valIn[i].Next
        /\ r.Message = "self-loop detected"})
    + Cardinality({p \in (1..Len(valIn)) \X C27_Codes :
        /\ C27_DanglingFallback(p[1], p[2])
        /\ r = ValidationError(valIn[p[1]].Step, "fallback." \o p[2],
                               valIn[p[1]].Fallback[p[2]], "target step does not exist")})

----------------------------------------------------------------------------
(* step loading : CompositeStepLoader *)

MaxLoaders == 2
MaxLoaded == 2

\* the bytes of the step ids in use; Go compares strings byte by byte
Bytes ==
    ("1.1" :> <<49, 46, 49>>) @@ ("1.2" :> <<49, 46, 50>>)
    @@ ("10.1" :> <<49, 48, 46, 49>>) @@ ("2.1" :> <<50, 46, 49>>)

\* the operator < of Go on strings
RECURSIVE LessBytes(_, _)
LessBytes(x, y) ==
    IF y = <<>> THEN FALSE
    ELSE IF x = <<>> THEN TRUE
    ELSE IF Head(x) < Head(y) THEN TRUE
    ELSE IF Head(x) > Head(y) THEN FALSE
    ELSE LessBytes(Tail(x), Tail(y))

\* the less function handed to sort.Slice
LessStep(a, b) == LessBytes(Bytes[a.Step], Bytes[b.Step])

RECURSIVE InsertSorted(_, _)
InsertSorted(s, sorted) ==
    IF sorted = <<>> THEN <<s>>
    ELSE IF LessStep(s, Head(sorted)) THEN <<s>> \o sorted
    ELSE <<Head(sorted)>> \o InsertSorted(s, Tail(sorted))

\* the slice left in the order in which the loaders delivered it
SortSlice_KeepsOrder(all) == all

\* sort.Slice(all, less): the steps reaching it have distinct ids, so the
\* result is the one ascending arrangement whatever the algorithm
RECURSIVE SortSlice(_)
SortSlice(all) ==
    IF all = <<>> THEN <<>>
    ELSE InsertSorted(Head(all), SortSlice(Tail(all)))

LoadResult(stepList, err) == [steps |-> stepList, err |-> err]

\* CompositeStepLoader.Load, the loop over the steps of one inner loader
RECURSIVE MergeSteps(_, _, _)
MergeSteps(stepList, seen, all) ==
    IF stepList = <<>> THEN [seen |-> seen, all |-> all, err |-> ""]
    ELSE IF Head(stepList).Step \in seen
         THEN [seen |-> seen, all |-> all, err |-> "duplicate step ID"]
         ELSE MergeSteps(Tail(stepList), seen \cup {Head(stepList).Step},
                         Append(all, Head(stepList)))

\* CompositeStepLoader.Load, the loop over the inner loaders; loaders[i] is
\* what the i-th inner loader returns
RECURSIVE LoadFrom(_, _, _, _)
LoadFrom(loaders, i, seen, all) ==
    IF i > Len(loaders) THEN LoadResult(SortSlice(all), "")
    ELSE IF loaders[i].err # "" THEN LoadResult(<<>>, loaders[i].err)
    ELSE LET m == MergeSteps(loaders[i].steps, seen, all)
         IN IF m.err # "" THEN LoadResult(<<>>, m.err)
            ELSE LoadFrom(loaders, i + 1, m.seen, m.all)

CompositeLoad(loaders) == LoadFrom(loaders, 1, {}, <<>>)

----------------------------------------------------------------------------
(* loading run *)

LoadedStep(id, title) == [Step |-> id, Title |-> title]

LoadedSteps ==
    {LoadedStep(id, "A") : id \in DOMAIN Bytes} \cup {LoadedStep("1.1", "B")}

InnerResults ==
    {LoadResult(<<>>, "read failed")}
    \cup {LoadResult(l, "") : l \in ListsOver(LoadedSteps, MaxLoaded)}

LoaderInit ==
    /\ ldrIn \in ListsOver(InnerResults, MaxLoaders)
    /\ ldrOut = [called |-> FALSE, err |-> "", steps |-> <<>>]
    /\ FlowIdle
    /\ ClsIdle
    /\ HookIdle
    /\ MonIdle
    /\ CmpIdle
    /\ TrkIdle
    /\ BldIdle
    /\ ValIdle
    /\ RndIdle
    /\ LateIdle

CallCompositeLoad ==
    /\ ~ldrOut.called
    /\ LET r == CompositeLoad(ldrIn)
       IN ldrOut' = [called |-> TRUE, err |-> r.err, steps |-> r.steps]
    /\ UNCHANGED <<ldrIn, nonLdrVars>>

LoaderNext == CallCompositeLoad

LoaderSpec == LoaderInit /\ [][LoaderNext]_vars

----------------------------------------------------------------------------
(* claims about step loading (LoaderSpec) *)

RECURSIVE C28_Concat(_)
C28_Concat(loaders) ==
    IF loaders = <<>> THEN <<>>
    ELSE Head(loaders).steps \o C28_Concat(Tail(loaders))

\* the ascending order of the ids in use, written out
C28_Rank == ("1.1" :> 1) @@ ("1.2" :> 2) @@ ("10.1" :> 3) @@ ("2.1" :> 4)

C28_Failed == \E i \in 1..Len(ldrIn) : ldrIn[i].err # ""

C28_Duplicate ==
    LET c == C28_Concat(ldrIn)
    IN \E i, j \in 1..Len(c) : i # j /\ c[i].Step = c[j].Step

\* C28: CompositeStepLoader.Load returns an error when two steps of the
\* concatenated results of its inner loaders share an id, also across
\* loaders, or when an inner loader fails; otherwise it returns every step
\* of every inner loader exactly once, in ascending order of id.
C28_MergedSortedUnique ==
    ldrOut.called =>
        /\ (ldrOut.err # "") <=> (C28_Failed \/ C28_Duplicate)
        /\ ldrOut.err = "" =>
              LET c == C28_Concat(ldrIn)
              IN /\ Len(ldrOut.steps) = Len(c)
                 /\ \A i \in 1..Len(c) :
                       Cardinality({k \in 1..Len(ldrOut.steps) : ldrOut.steps[k] = c[i]}) = 1
                 /\ \A k \in 1..(Len(ldrOut.steps) - 1) :
                       C28_Rank[ldrOut.steps[k].Step] < C28_Rank[ldrOut.steps[k + 1].Step]

\* two loaders delivering out of order are merged into one ascending list
C28_Witness ==
    /\ ldrOut.called
    /\ ldrOut.err = ""
    /\ Len(ldrIn) = 2
    /\ Len(ldrIn[1].steps) = 2 /\ ldrIn[1].steps[1].Step = "2.1"
    /\ ldrIn[1].steps[2].Step = "10.1"
    /\ Len(ldrIn[2].steps) = 1 /\ ldrIn[2].steps[1].Step = "1.2"
    /\ Len(ldrOut.steps) = 3

\* a duplicate across two loaders is an error
C28_WitnessDuplicate ==
    /\ ldrOut.called
    /\ ldrOut.err = "duplicate step ID"
    /\ Len(ldrIn) = 2
    /\ \A i \in 1..2 : Len(ldrIn[i].steps) = 1 /\ ldrIn[i].steps[1].Step = "1.1"

----------------------------------------------------------------------------
(* template rendering : RenderTemplate *)
(* a string is the sequence of its characters *)

MaxPieces == 2

\* "{{" + key + "}}"
Placeholder(key) == <<"{", "{">> \o key \o <<"}", "}">>

\* strings.ReplaceAll(s, old, new) for a non-empty old: the matches are
\* found from left to right and do not overlap
RECURSIVE ReplaceAll(_, _, _)
ReplaceAll(s, old, new) ==
    IF Len(s) < Len(old) THEN s
    ELSE IF SubSeq(s, 1, Len(old)) = old
         THEN new \o ReplaceAll(SubSeq(s, Len(old) + 1, Len(s)), old, new)
         ELSE <<Head(s)>> \o ReplaceAll(Tail(s), old, new)

\* RenderTemplate, the loop over the map; order is the order in which the
\* runtime iterates the map in this call
RECURSIVE RenderLoop(_, _, _)
RenderLoop(rendered, varMap, order) ==
    IF order = <<>> THEN rendered
    ELSE RenderLoop(ReplaceAll(rendered, Placeholder(Head(order)), varMap[Head(order)]),
                    varMap, Tail(order))

RenderTemplate(content, varMap, order) ==
    IF content = <<>> \/ DOMAIN varMap = {} THEN content
    ELSE RenderLoop(content, varMap, order)

----------------------------------------------------------------------------
(* rendering run *)

RenderKeys == {<<"a">>, <<"b">>}

RenderValues == {<<>>, <<"x">>, Placeholder(<<"a">>), Placeholder(<<"b">>)}

RenderMaps == UNION {[K -> RenderValues] : K \in SUBSET RenderKeys}

Pieces ==
    {Placeholder(<<"a">>), Placeholder(<<"b">>), Placeholder(<<"c">>),
     <<"x">>, <<"{", "{">>, <<"a", "}", "}">>}

RECURSIVE Flatten(_)
Flatten(l) == IF l = <<>> THEN <<>> ELSE Head(l) \o Flatten(Tail(l))

Contents == {Flatten(l) : l \in ListsOver(Pieces, MaxPieces)}

RenderInit ==
    /\ rndIn \in {in \in [content : Contents, A : RenderMaps, B : RenderMaps] :
                     DOMAIN in.A \cap DOMAIN in.B = {}}
    /\ rndOut = NoRender
    /\ FlowIdle
    /\ ClsIdle
    /\ HookIdle
    /\ MonIdle
    /\ CmpIdle
    /\ TrkIdle
    /\ BldIdle
    /\ ValIdle
    /\ LdrIdle
    /\ LateIdle

\* RenderTemplate(content, A u B)
CallRenderUnion ==
    /\ "whole" \notin rndOut.calls
    /\ \E order \in Orderings(DOMAIN (rndIn.A @@ rndIn.B)) :
        rndOut' = [rndOut EXCEPT
                      !.whole = RenderTemplate(rndIn.content, rndIn.A @@ rndIn.B, order),
                      !.calls = @ \cup {"whole"}]
    /\ UNCHANGED <<rndIn, nonRndVars>>

\* the same call once more
CallRenderAgain ==
    /\ "whole" \in rndOut.calls
    /\ "again" \notin rndOut.calls
    /\ \E order \in Orderings(DOMAIN (rndIn.A @@ rndIn.B)) :
        rndOut' = [rndOut EXCEPT
                      !.again = RenderTemplate(rndIn.content, rndIn.A @@ rndIn.B, order),
                      !.calls = @ \cup {"again"}]
    /\ UNCHANGED <<rndIn, nonRndVars>>

\* RenderTemplate(RenderTemplate(content, A), B)
CallRenderSplit ==
    /\ "split" \notin rndOut.calls
    /\ \E oa \in Orderings(DOMAIN rndIn.A), ob \in Orderings(DOMAIN rndIn.B) :
        rndOut' = [rndOut EXCEPT
                      !.split = RenderTemplate(RenderTemplate(rndIn.content, rndIn.A, oa),
                                               rndIn.B, ob),
                      !.calls = @ \cup {"split"}]
    /\ UNCHANGED <<rndIn, nonRndVars>>

RenderNext == CallRenderUnion \/ CallRenderAgain \/ CallRenderSplit

RenderSpec == RenderInit /\ [][RenderNext]_vars

----------------------------------------------------------------------------
(* claims about template rendering (RenderSpec) *)

\* one pass over the content replacing each placeholder of a key of the map
RECURSIVE C29_Substitute(_, _)
C29_Substitute(s, varMap) ==
    IF s = <<>> THEN <<>>
    ELSE IF \E k \in DOMAIN varMap :
               Len(s) >= Len(Placeholder(k)) /\ SubSeq(s, 1, Len(Placeholder(k))) = Placeholder(k)
         THEN LET k == CHOOSE k \in DOMAIN varMap :
                           /\ Len(s) >= Len(Placeholder(k))
                           /\ SubSeq(s, 1, Len(Placeholder(k))) = Placeholder(k)
              IN varMap[k] \o C29_Substitute(SubSeq(s, Len(Placeholder(k)) + 1, Len(s)), varMap)
         ELSE <<Head(s)>> \o C29_Substitute(Tail(s), varMap)

C29_PlainValues(varMap) ==
    \A k \in DOMAIN varMap : \A i \in 1..Len(varMap[k]) : varMap[k][i] \notin {"{", "}"}

\* C29: RenderTemplate is deterministic: two calls with the same content and
\* the same map return the same string, also when a value of the map holds
\* the placeholder of another key; every placeholder of a key of the map is
\* replaced by its value and the placeholders of other keys stay as they are.
C29_Deterministic ==
    /\ {"whole", "again"} \subseteq rndOut.calls => rndOut.whole = rndOut.again
    /\ ("whole" \in rndOut.calls /\ C29_PlainValues(rndIn.A @@ rndIn.B)) =>
           rndOut.whole = C29_Substitute(rndIn.content, rndIn.A @@ rndIn.B)

\* C30: for maps A and B with disjoint keys, rendering with the union of A
\* and B gives the same string as rendering with A and then rendering the
\* result with B.
C30_UnionIsSequential ==
    {"whole", "split"} \subseteq rndOut.calls => rndOut.whole = rndOut.split

----------------------------------------------------------------------------
(* input summariser : LLMSummarizer, FallbackSummarizer *)
(* a text is the sequence of its lines, a line a name and its length in *)
(* bytes; the text of k lines holds k - 1 newline bytes *)

MaxSummarize == 3

maxChars == 4000

Line(s, n) == [s |-> s, n |-> n]

\* a string without a newline as a text
OneLine(s) == <<Line(s, Len(s))>>

\* the string returned for a path that cannot be read
ReadFailed == OneLine("(read failed)")

RECURSIVE ByteLen(_)
ByteLen(text) ==
    IF Len(text) = 1 THEN text[1].n
    ELSE Head(text).n + 1 + ByteLen(Tail(text))

\* text[:k]
RECURSIVE TakeBytes(_, _)
TakeBytes(text, k) ==
    LET h == Head(text)
    IN IF k > h.n /\ Len(text) > 1 THEN <<h>> \o TakeBytes(Tail(text), k - h.n - 1)
       ELSE IF k >= h.n THEN <<h>>
       ELSE <<Line(IF k = 0 THEN "" ELSE h.s, k)>>

\* Summarize, the cut at maxChars with the marker appended on a line of its own
Truncate(text) ==
    IF ByteLen(text) > maxChars
    THEN Append(TakeBytes(text, maxChars), Line("...(truncated)", 14))
    ELSE text

\* fallbackSummary: strings.SplitN(content, "\n", 6), at most 5 pieces joined
fallbackSummary(content) ==
    SubSeq(content, 1, IF Len(content) > 5 THEN 5 ELSE Len(content))

\* llmSummarize; l is what the model does in this call
llmSummarize(llmModel, l, content) ==
    IF llmModel = "nil" THEN fallbackSummary(content)
    ELSE IF l.kind = "callerr" THEN fallbackSummary(content)
    ELSE IF l.kind = "streamerr" THEN fallbackSummary(content)
    ELSE IF TrimSpace(l.text) # "" THEN OneLine(TrimSpace(l.text))
    ELSE fallbackSummary(content)

SummarizeCall(pc, path, text, summary, seen, read, asked) ==
    [pc |-> pc, path |-> path, text |-> text, summary |-> summary,
     seen |-> seen, read |-> read, asked |-> asked]

\* the model was not asked
NotAsked == LLMOutcome("none", "")

NoCall == SummarizeCall("idle", "", <<>>, <<>>, 0, FALSE, NotAsked)

\* a returned call: seen is the number of calls that had returned when it began
Returned(kind, c, ret) ==
    [kind |-> kind, path |-> c.path, ret |-> ret, err |-> "nil", seen |-> c.seen,
     read |-> c.read, asked |-> c.asked]

\* LLMSummarizer.Summarize, the first critical section: the cache lookup
BeginSummarize(g, path) ==
    /\ sumCalls[g].pc = "idle"
    /\ Len(sumLog) + Cardinality({h \in DOMAIN sumCalls : sumCalls[h].pc # "idle"}) < MaxSummarize
    /\ LET c == SummarizeCall("read", path, <<>>, <<>>, Len(sumLog), FALSE, NotAsked)
       IN IF path \in DOMAIN summarizer.cache
          THEN /\ sumLog' = Append(sumLog, Returned("llm", c, summarizer.cache[path]))
               /\ UNCHANGED sumCalls
          ELSE /\ sumCalls' = [sumCalls EXCEPT ![g] = c]
               /\ UNCHANGED sumLog
    /\ UNCHANGED <<summarizer, sumFS, nonSumVars>>

\* LLMSummarizer.Summarize, s.fs.ReadFile and the cut
ReadStep(g) ==
    /\ sumCalls[g].pc = "read"
    /\ LET c == sumCalls[g]
           r == ReadFile(sumFS, c.path)
       IN IF r.err
          THEN /\ sumLog' = Append(sumLog, Returned("llm", c, ReadFailed))
               /\ sumCalls' = [sumCalls EXCEPT ![g] = NoCall]
          ELSE /\ sumCalls' = [sumCalls EXCEPT ![g] =
                                  [c EXCEPT !.pc = "llm", !.text = Truncate(r.data), !.read = TRUE]]
               /\ UNCHANGED sumLog
    /\ UNCHANGED <<summarizer, sumFS, nonSumVars>>

\* LLMSummarizer.Summarize, the call of llmSummarize
LLMStep(g) ==
    /\ sumCalls[g].pc = "llm"
    /\ \E l \in LLMOutcomes :
        sumCalls' = [sumCalls EXCEPT ![g] =
            [sumCalls[g] EXCEPT
                !.pc = "store",
                !.summary = llmSummarize(summarizer.llmModel, l, sumCalls[g].text),
                !.asked = IF summarizer.llmModel = "nil" THEN NotAsked ELSE l]]
    /\ UNCHANGED <<summarizer, sumFS, sumLog, nonSumVars>>

\* LLMSummarizer.Summarize, the second critical section and the return
StoreStep(g) ==
    /\ sumCalls[g].pc = "store"
    /\ summarizer' = [summarizer EXCEPT
                         !.cache = (sumCalls[g].path :> sumCalls[g].summary) @@ @]
    /\ sumLog' = Append(sumLog, Returned("llm", sumCalls[g], sumCalls[g].summary))
    /\ sumCalls' = [sumCalls EXCEPT ![g] = NoCall]
    /\ UNCHANGED <<sumFS, nonSumVars>>

\* FallbackSummarizer.Summarize
FallbackSummarize(path) ==
    /\ Len(sumLog) + Cardinality({h \in DOMAIN sumCalls : sumCalls[h].pc # "idle"}) < MaxSummarize
    /\ LET r == ReadFile(sumFS, path)
           c == SummarizeCall("read", path, <<>>, <<>>, Len(sumLog), ~r.err, NotAsked)
       IN sumLog' = Append(sumLog, Returned("fallback", c,
                              IF r.err THEN ReadFailed ELSE fallbackSummary(r.data)))
    /\ UNCHANGED <<summarizer, sumFS, sumCalls, nonSumVars>>

----------------------------------------------------------------------------
(* summariser run *)

Goroutines == {1, 2}

SumPaths == {"in/a.md", "in/gone.md"}

\* what in/a.md holds: one line, six lines, one line longer than maxChars,
\* three lines cut inside the second
SumContents ==
    {<<Line("h", 1)>>,
     <<Line("l1", 2), Line("l2", 2), Line("l3", 2), Line("l4", 2), Line("l5", 2), Line("l6", 2)>>,
     <<Line("big", 4001)>>,
     <<Line("most", 3998), Line("ab", 2), Line("c", 1)>>}

SummarizerInit ==
    /\ \E m \in {"nil", "model"} : summarizer = [llmModel |-> m, cache |-> <<>>]
    /\ \E data \in SumContents :
        sumFS = ("in/a.md" :> RegularFile(data, 1, TRUE)) @@ ("in/gone.md" :> Missing)
    /\ sumCalls = [g \in Goroutines |-> NoCall]
    /\ sumLog = <<>>
    /\ FlowIdle
    /\ ClsIdle
    /\ HookIdle
    /\ MonIdle
    /\ CmpIdle
    /\ TrkIdle
    /\ BldIdle
    /\ ValIdle
    /\ LdrIdle
    /\ RndIdle
    /\ PrgIdle

SummarizerNext ==
    \/ \E g \in Goroutines, path \in SumPaths : BeginSummarize(g, path)
    \/ \E g \in Goroutines : ReadStep(g)
    \/ \E g \in Goroutines : LLMStep(g)
    \/ \E g \in Goroutines : StoreStep(g)
    \/ \E path \in SumPaths : FallbackSummarize(path)

SummarizerSpec == SummarizerInit /\ [][SummarizerNext]_vars

----------------------------------------------------------------------------
(* claims about the input summariser (SummarizerSpec) *)

C31_Readable(path) == ~ReadFile(sumFS, path).err

\* C31: Summarize of both summarisers never returns an error; a path that
\* cannot be read yields the read-failure string and is not cached. For the
\* LLM-backed summariser, once a call for a path has read the file and
\* returned, every later call for the path returns the same string without
\* reading the file or asking the model again; a failed model call, an
\* error in the response stream, an empty response and a nil model yield
\* the first five lines.
C31_NeverFailsAndCaches ==
    /\ \A k \in 1..Len(sumLog) :
          /\ sumLog[k].err = "nil"
          /\ ~C31_Readable(sumLog[k].path) => sumLog[k].ret = ReadFailed
          /\ (sumLog[k].kind = "llm" /\ sumLog[k].read
                 /\ \/ summarizer.llmModel = "nil"
                    \/ sumLog[k].asked.kind \in {"callerr", "streamerr"}
                    \/ sumLog[k].asked.kind = "text" /\ sumLog[k].asked.text \in {"", "  "})
             => sumLog[k].ret =
                    fallbackSummary(Truncate(ReadFile(sumFS, sumLog[k].path).data))
          /\ \A j \in 1..sumLog[k].seen :
                (/\ sumLog[j].kind = "llm" /\ sumLog[k].kind = "llm"
                 /\ sumLog[j].path = sumLog[k].path
                 /\ sumLog[j].read)
                => /\ ~sumLog[k].read
                   /\ sumLog[k].asked = NotAsked
                   /\ sumLog[k].ret = sumLog[j].ret
    /\ \A p \in DOMAIN summarizer.cache : C31_Readable(p)

\* C32: the concurrent Summarize calls for one path on one LLM-backed
\* summariser, and every later call, return the same string, and the value
\* cached for a path never changes once it is there.
C32_SameSummary ==
    \A j, k \in 1..Len(sumLog) :
        (sumLog[j].kind = "llm" /\ sumLog[k].kind = "llm" /\ sumLog[j].path = sumLog[k].path)
        => sumLog[j].ret = sumLog[k].ret

C32_CacheStable ==
    \A p \in DOMAIN summarizer.cache :
        p \in DOMAIN summarizer'.cache /\ summarizer'.cache[p] = summarizer.cache[p]

C32_Idempotent == []C32_SameSummary /\ [][C32_CacheStable]_vars

----------------------------------------------------------------------------
(* claims about the order of a step's events and its routing (FlowSpec) *)

C33_Follows(e, before) ==
    \A j \in 1..Len(events) : events[j] = e => (j > 1 /\ events[j - 1] \in before)

\* C33: in a graph flow the events of one visit to a step are ordered: the
\* chained pre hooks run before the model call, the turn and its post hook
\* are over before the routing decision, the routing decision comes before
\* the tools node when one runs, the tools node before the decision of the
\* fallback router, and the post hooks of the confirm node run right after
\* the confirm node has completed and are the last event of the step.
C33_StepEventsOrdered ==
    builder = "graph" =>
        /\ events # <<>> => events[1] = "pre" /\ Len(events) > 1 /\ events[2] = "llm"
        /\ \A j \in 2..Len(events) : events[j] # "pre"
        /\ C33_Follows("llm", {"pre"})
        /\ C33_Follows("llm_post", {"llm"})
        /\ C33_Follows("route", {"llm_post"})
        /\ C33_Follows("tools", {"route"})
        /\ C33_Follows("router", {"tools"})
        /\ C33_Follows("suspend", {"route"})
        /\ C33_Follows("suspend_post", {"suspend"})
        /\ C33_Follows("confirm", {"route", "suspend", "suspend_post"})
        /\ C33_Follows("confirm_post", {"confirm"})
        /\ \A j \in 1..Len(events) : events[j] = "confirm_post" => j = Len(events)
        /\ (phase = "ran" /\ cur.kind = "confirm") => events[Len(events)] = "confirm_post"

\* a visit that went through the tools node and, after a retry, a visit
\* that was suspended, resumed and ended with the post hooks
C33_Witness ==
    /\ builder = "graph"
    /\ events = <<"pre", "llm", "llm_post", "route", "suspend", "confirm", "confirm_post">>
    /\ toolsNodeID(cur.step) \in finished

C33_WitnessTools ==
    /\ builder = "graph"
    /\ events = <<"pre", "llm", "llm_post", "route", "tools", "router">>

----------------------------------------------------------------------------
(* workflow snapshot : Snapshot.buildProgress *)
(* a line of the section is the mark it begins with and the values *)
(* formatted into it *)

MaxProgressSteps == 3

\* Frontmatter.PrimaryOutput
PrimaryOutput(outputs) == IF Len(outputs) > 0 THEN outputs[1] ELSE ""

CompletedLine(sid, title, output, lineCount) ==
    [mark |-> "completed", sid |-> sid, title |-> title, output |-> output, lines |-> lineCount]
CurrentLine(sid, title, output) ==
    [mark |-> "current", sid |-> sid, title |-> title, output |-> output, lines |-> 0]
PendingLine(sid, title) ==
    [mark |-> "pending", sid |-> sid, title |-> title, output |-> "", lines |-> 0]

\* the line of one step, with the test for the current step made first
ProgressLine_CurrentFirst(p, allArtifacts, currentStepID) ==
    IF p.Step = currentStepID
    THEN CurrentLine(p.Step, p.Title, PrimaryOutput(p.Output))
    ELSE IF p.Step \in DOMAIN allArtifacts /\ allArtifacts[p.Step].Status = "completed"
    THEN CompletedLine(p.Step, p.Title, PrimaryOutput(p.Output), allArtifacts[p.Step].LineCount)
    ELSE PendingLine(p.Step, p.Title)

\* buildProgress, the body of the loop over the steps
ProgressLine(p, allArtifacts, currentStepID) ==
    IF p.Step \in DOMAIN allArtifacts /\ allArtifacts[p.Step].Status = "completed"
    THEN CompletedLine(p.Step, p.Title, PrimaryOutput(p.Output), allArtifacts[p.Step].LineCount)
    ELSE IF p.Step = currentStepID
    THEN CurrentLine(p.Step, p.Title, PrimaryOutput(p.Output))
    ELSE PendingLine(p.Step, p.Title)

\* buildProgress: the lines, and the two numbers of the trailing counter
buildProgress(stepList, allArtifacts, currentStepID) ==
    LET lines == [i \in 1..Len(stepList) |->
                     ProgressLine(stepList[i], allArtifacts, currentStepID)]
        completedCount == Cardinality({i \in 1..Len(stepList) : lines[i].mark = "completed"})
    IN [lines |-> lines, counter |-> <<completedCount + 1, Len(stepList)>>]

----------------------------------------------------------------------------
(* snapshot run *)

ProgressIds == {"1.1", "1.2", "1.3"}

ProgressSteps ==
    {[Step |-> "1.1", Title |-> "Outline", Output |-> <<"docs/a.md">>],
     [Step |-> "1.2", Title |-> "Review", Output |-> <<"docs/b.md", "docs/b2.md">>],
     [Step |-> "1.3", Title |-> "Plan", Output |-> <<>>]}

\* what the tracker may hold for a step
ProgressRecords ==
    {[Status |-> "completed", LineCount |-> 50], [Status |-> "completed", LineCount |-> 0],
     [Status |-> "failed", LineCount |-> 7]}

TrackerStates == UNION {[K -> ProgressRecords] : K \in SUBSET ProgressIds}

ProgressInit ==
    /\ prgIn \in [steps : ListsOver(ProgressSteps, MaxProgressSteps),
                  tracker : TrackerStates,
                  current : ProgressIds \cup {""}]
    /\ prgOut = [called |-> FALSE, lines |-> <<>>, counter |-> <<0, 0>>]
    /\ FlowIdle
    /\ ClsIdle
    /\ HookIdle
    /\ MonIdle
    /\ CmpIdle
    /\ TrkIdle
    /\ BldIdle
    /\ ValIdle
    /\ LdrIdle
    /\ RndIdle
    /\ SumIdle

CallBuildProgress ==
    /\ ~prgOut.called
    /\ LET r == buildProgress(prgIn.steps, prgIn.tracker, prgIn.current)
       IN prgOut' = [called |-> TRUE, lines |-> r.lines, counter |-> r.counter]
    /\ UNCHANGED <<prgIn, nonPrgVars>>

ProgressNext == CallBuildProgress

ProgressSpec == ProgressInit /\ [][ProgressNext]_vars

----------------------------------------------------------------------------
(* claims about the Progress section (ProgressSpec) *)

C34_Completed(sid) ==
    sid \in DOMAIN prgIn.tracker /\ prgIn.tracker[sid].Status = "completed"

\* C34: the Progress section has one line per step in list order: a step
\* with a completed artifact is shown as completed with its line count, the
\* current step, when it has no completed artifact, as current, every other
\* step as pending; the counter shows the number of listed steps with a
\* completed artifact plus one, and the number of steps.
C34_ProgressLines ==
    prgOut.called =>
        /\ Len(prgOut.lines) = Len(prgIn.steps)
        /\ \A i \in 1..Len(prgIn.steps) :
              LET p == prgIn.steps[i]
                  l == prgOut.lines[i]
              IN /\ l.sid = p.Step
                 /\ C34_Completed(p.Step) =>
                       l.mark = "completed" /\ l.lines = prgIn.tracker[p.Step].LineCount
                 /\ (~C34_Completed(p.Step) /\ p.Step = prgIn.current) => l.mark = "current"
                 /\ (~C34_Completed(p.Step) /\ p.Step # prgIn.current) => l.mark = "pending"
        /\ prgOut.counter[1] =
              Cardinality({i \in 1..Len(prgIn.steps) : C34_Completed(prgIn.steps[i].Step)}) + 1
        /\ prgOut.counter[2] = Len(prgIn.steps)

\* three steps: the first completed, the second current, the third pending
C34_Witness ==
    /\ prgOut.called
    /\ Len(prgIn.steps) = 3
    /\ prgOut.lines[1].mark = "completed" /\ prgOut.lines[1].lines = 50
    /\ prgOut.lines[2].mark = "current"
    /\ prgOut.lines[3].mark = "pending"
    /\ prgOut.counter = <<2, 3>>

\* the current step holds a completed artifact and is shown as completed
C34_WitnessCurrentCompleted ==
    /\ prgOut.called
    /\ \E i \in 1..Len(prgIn.steps) :
          /\ prgIn.steps[i].Step = prgIn.current
          /\ C34_Completed(prgIn.current)
          /\ prgOut.lines[i].mark = "completed"

\* C40: whenever the current step id is one of the snapshot's steps, the
\* Progress section marks exactly one step as the current task, and that
\* step is the current step, whatever the tracker holds, also when the
\* current step already has a completed artifact.
C40_OneCurrentTask ==
    (prgOut.called /\ \E i \in 1..Len(prgIn.steps) : prgIn.steps[i].Step = prgIn.current)
    => /\ Cardinality({i \in 1..Len(prgOut.lines) : prgOut.lines[i].mark = "current"}) = 1
       /\ \A i \in 1..Len(prgOut.lines) :
             prgOut.lines[i].mark = "current" => prgOut.lines[i].sid = prgIn.current

\* the fallback map given to the router that decides at the node, when the
\* builder registered a conditional edge with a path map there
C35_RoutedBy(node) ==
    CASE builder = "graph" /\ node.kind = "tools" -> <<steps[node.step].fallback>>
      [] builder = "graph" /\ node.kind = "llm" /\ ~steps[node.step].tools
             /\ DOMAIN steps[node.step].fallback # {} -> <<steps[node.step].fallback>>
      [] builder = "chain" /\ node.kind = "tools" -> <<NoFallback>>
      [] OTHER -> <<>>

\* C35: whenever a fallback router decides, for every step and every value
\* of pipeline_error_code, the label it returns is a key of the path map
\* registered on the same conditional edge, also when a fallback entry maps
\* a code or default to an empty target.
C35_LabelInPathMap ==
    (phase = "ran" /\ cur.kind \in {"llm", "tools"} /\ C35_RoutedBy(cur) # <<>>) =>
        LET fb == C35_RoutedBy(cur)[1]
        IN makeFallbackRouter(fb, errCode) \in DOMAIN PathMap(fb, confirmNodeID(cur.step))

\* the values pipeline_error_code can hold when a model turn begins
C36_Codes == {""} \cup ErrorCodes \cup {"custom_code"}

\* C36: in a graph flow the fallback edges of a step without tool sets and
\* with a non-empty fallback entry are live: for some value the slot holds
\* when the turn of the step's LLM node begins, the router evaluated after
\* the turn selects a fallback target instead of the step's confirm node.
C36_FallbackEdgesLive ==
    builder = "graph" =>
        \A s \in StepIds :
            (~steps[s].tools /\ \E c \in DOMAIN steps[s].fallback : steps[s].fallback[c] # "")
            => \E code \in C36_Codes :
                  LET post == LLMPostHook(builder, TRUE, NilError)
                      after == IF post.patch THEN post.code ELSE code
                  IN /\ post.err.isNil
                     /\ ConditionalTarget(steps[s].fallback, after, confirmNodeID(s))
                            \notin {confirmNodeID(s), NoNode}

\* in every run, the router evaluated after the LLM node of a step without
\* tool sets selects the step's confirm node
C36_RouterAlwaysConfirms ==
    (builder = "graph" /\ phase = "ran" /\ cur.kind = "llm" /\ ~steps[cur.step].tools) =>
        Targets(builder, steps, cur, errCode, toolCalls) = {confirmNodeID(cur.step)}

C39_StaysOnStep ==
    (builder = "chain" /\ cur.kind = "tools" /\ cur' # cur) => cur' = LLMNodeID(cur.step)

C39_InInputOrder ==
    (builder = "chain" /\ cur' # cur /\ cur' \notin {End, NoNode}) =>
        StepIndex(cur'.step) >= StepIndex(cur.step)

C39_AllAuto == \A s \in StepIds : steps[s].advance = AdvanceAuto

----------------------------------------------------------------------------
(* Claims on the token monitor under concurrent callers (MonitorSpec) *)

\* the turns counted are the RecordUsage calls completed since the last
\* Reset, and the records kept carry the consecutive turn numbers ending
\* with the count
C37_NoLostUpdate ==
    /\ mon.turnCount = Len(recLog)
    /\ Len(mon.usageHistory) <= mon.turnCount
    /\ \A i \in 1..Len(mon.usageHistory) :
           mon.usageHistory[i].TurnNumber = mon.turnCount - Len(mon.usageHistory) + i

\* a RecordUsage that returns assigned the next turn number, and a GetStats
\* that returns hands out the statistics of the monitor as it stands
C37_WholeOperations ==
    \A t \in Threads :
        /\ Returns(t, "RecordUsage") =>
               /\ mon'.turnCount = mon.turnCount + 1
               /\ mon'.usageHistory[Len(mon'.usageHistory)].TurnNumber = Len(recLog')
        /\ Returns(t, "GetStatsAvg") => StatsReturned(t) = GetStats(mon)

\* C37: under any interleaving of concurrent RecordUsage, OnCompression,
\* Reset and GetStats calls on one Monitor no update is lost and no torn
\* state is observed: after n RecordUsage calls have completed with no Reset
\* turnCount = n and the turn numbers assigned are the distinct values 1..n,
\* and every GetStats result equals the counters of a state between two whole
\* operations.
C37_NoLostUpdateNoTornRead == []C37_NoLostUpdate /\ [][C37_WholeOperations]_vars

\* a GetStats on its way out with two turns and an estimate, after a
\* compression, while the other goroutine returned from its own GetStats
C37_Witness ==
    /\ thr["g1"].pc = "GetStatsAvg"
    /\ thr["g1"].stats.map["turnCount"] = 2
    /\ "estimatedRemainingTurns" \in DOMAIN GetStats(mon).map
    /\ GetStats(mon).map["estimatedRemainingTurns"] < 0
    /\ thr["g2"].ret = "stats"
    /\ nCompress > 0
====
